---- MODULE Spec2Model ----
(***************************************************************************)
(* A model of dialograph's temporal memory graph: Edge (core/edge.py),      *)
(* Node (core/node.py) and Dialograph (core/graph.py).                      *)
(*                                                                          *)
(* Numbers.  strength, emotional_charge and every amount are Python floats. *)
(* They are modelled in fixed point: the integer n stands for n / One, so    *)
(* with One = 10 the value 0.7 is 7.  Node.confidence is kept on the finer   *)
(* grid ConfOne, and values derived with exp or a quotient (availability,    *)
(* recency) to three decimals (Milli).  Every input set below is chosen so   *)
(* that each product and each halving the code performs on the grid of One   *)
(* is exact.  Timestamps (time.time()) and memory_strength are integer       *)
(* seconds.                                                                  *)
(*                                                                          *)
(* Optional values.  Python's None is the empty sequence <<>>, a present     *)
(* value x is <<x>>.                                                         *)
(***************************************************************************)

EXTENDS Integers, Sequences, FiniteSets, TLC

VARIABLES
    edge,    \* SpecEdge: the Edge object under test
    node_obj, \* SpecNode: the Node object under test
    now,     \* the wall clock, what time.time() returns
    call,    \* the last call made: its name and its arguments (and, for
             \* apply_reinforcement, the pending slot and strength it found)
    raised,  \* TRUE iff the last call raised an exception
    ret,     \* the value the last call returned (None when it has none)
    nodes,   \* Dialograph.nodes: node id -> Node
    edges,   \* Dialograph.edges: edge id -> Edge
    edge_keys, \* list(Dialograph.edges): its keys in insertion order (a
             \* Python dict iterates in the order its keys were inserted)
    graph,   \* Dialograph.graph: the networkx MultiDiGraph (topology only)
    disk,    \* the file written by save: None or the pickled state
    server,  \* the LiveVisualizationServer draw_live returned (None before),
             \* with the HTTP server and the temporary directory it owns
    html_file \* the file written by draw(filename=...): None or its text

vars == <<edge, node_obj, now, call, raised, ret, nodes, edges, edge_keys, graph, disk, server, html_file>>

----------------------------------------------------------------------------
(* Fixed point and helpers *)

\* 1.0 on the fixed-point grid.
One == 10

\* How far below 0.0 the model follows strength before it stops exploring.
MaxDeficit == 4

\* The wall clock stops ticking here.
MaxTime == 1

None == <<>>
Some(x) == <<x>>

Min(a, b) == IF a <= b THEN a ELSE b
Max(a, b) == IF a >= b THEN a ELSE b
Abs(a) == IF a < 0 THEN -a ELSE a

\* The empty dict.
EmptyDict == <<>>

\* d[k] = v for a dict d.
DictSet(d, k, v) == [x \in (DOMAIN d) \cup {k} |-> IF x = k THEN v ELSE d[x]]

\* Node.confidence moves in steps of 0.05 (reinforce), so it is kept on a
\* grid twice as fine as One: the integer n stands for n / ConfOne.
ConfOne == 2 * One

\* Seconds: the default memory_strength and the scale of Edge.recency_factor
\* (one hour), and reinforce's hard cap (one week).
Hour == 3600
Week == 7 * 24 * Hour

\* Python's `x or y` on an optional number: None and 0 are both falsy.
OrElse(x, y) == IF x = None THEN y ELSE IF x[1] = 0 THEN y ELSE x[1]

\* Results in [0,1] that are not on a grid of the inputs (exp, 1/(1+x)) are
\* kept to three decimals: the integer n stands for n / Milli.
Milli == 1000

----------------------------------------------------------------------------
(* Edge: core/edge.py *)

\* Edge.__init__ with Edge.__post_init__, for non-empty endpoint ids: the
\* dataclass fields, strength and emotional_charge clamped.
NewEdge(id, src, dst, strength, charge, t) ==
    [edge_id |-> id,
     source_node_id |-> src,
     target_node_id |-> dst,
     relation |-> "supports",
     strength |-> Max(0, Min(One, strength)),
     created_at |-> t,
     last_used |-> t,
     emotional_charge |-> Max(-One, Min(One, charge)),
     pending_reinforcement |-> None,
     metadata |-> EmptyDict]

\* A check that looks at the source id only.
EdgeCtorRaises_source_only(src, dst) == src = ""

\* __post_init__'s check: an empty endpoint id raises ValueError.
EdgeCtorRaises(src, dst) == src = "" \/ dst = ""

touch(e, t) == [e EXCEPT !.last_used = t]

\* A method's outcome: the edge after the call and whether it raised.
Done(e) == [edge |-> e, raised |-> FALSE]
Raise(e) == [edge |-> e, raised |-> TRUE]

\* schedule_reinforcement that keeps an amount that is already pending.
schedule_reinforcement_keeping_first(e, amount) ==
    IF ~(-One <= amount /\ amount <= One)
    THEN Raise(e)
    ELSE IF e.pending_reinforcement # None
    THEN Done(e)
    ELSE Done([e EXCEPT !.pending_reinforcement = Some(amount)])

schedule_reinforcement_clamping(e, amount) ==
    Done([e EXCEPT !.pending_reinforcement = Some(Max(-One, Min(One, amount)))])

schedule_reinforcement(e, amount) ==
    IF ~(-One <= amount /\ amount <= One)
    THEN Raise(e)
    ELSE Done([e EXCEPT !.pending_reinforcement = Some(amount)])

\* abs(pending) * 0.5; the scheduled amounts of the model are even.
HalfAbs(p) == Abs(p) \div 2

apply_reinforcement_touching(e, success, t) ==
    IF e.pending_reinforcement = None
    THEN Done(touch(e, t))
    ELSE LET p == e.pending_reinforcement[1]
             s == IF success
                  THEN Min(One, e.strength + p)
                  ELSE Max(0, e.strength - HalfAbs(p))
         IN Done(touch([e EXCEPT !.strength = s,
                                 !.pending_reinforcement = None], t))

apply_reinforcement_signed(e, success, t) ==
    IF e.pending_reinforcement = None
    THEN Done(e)
    ELSE LET p == e.pending_reinforcement[1]
             s == IF success
                  THEN Min(One, e.strength + p)
                  ELSE Max(0, e.strength - (p \div 2))
         IN Done(touch([e EXCEPT !.strength = s,
                                 !.pending_reinforcement = None], t))

apply_reinforcement_keeping(e, success, t) ==
    IF e.pending_reinforcement = None
    THEN Done(e)
    ELSE LET p == e.pending_reinforcement[1]
             s == IF success
                  THEN Min(One, e.strength + p)
                  ELSE Max(0, e.strength - HalfAbs(p))
         IN Done(touch([e EXCEPT !.strength = s,
                                 !.pending_reinforcement =
                                     IF success THEN None ELSE @], t))

apply_reinforcement(e, success, t) ==
    IF e.pending_reinforcement = None
    THEN Done(e)
    ELSE LET p == e.pending_reinforcement[1]
             s == IF success
                  THEN Min(One, e.strength + p)
                  ELSE Max(0, e.strength - HalfAbs(p))
         IN Done(touch([e EXCEPT !.strength = s,
                                 !.pending_reinforcement = None], t))

reinforce(e, amount, t) ==
    Done(touch([e EXCEPT !.strength = Min(One, @ + Max(0, amount))], t))

weaken(e, amount, t) ==
    Done(touch([e EXCEPT !.strength = Max(0, @ - Max(0, amount))], t))

\* register_emotion's emotion_map; a name outside it has delta 0.0.
emotion_map ==
    [happy |-> 3, excited |-> 4, surprised |-> 1, neutral |-> 0,
     anxious |-> -1, sad |-> -2, angry |-> -4]

EmotionDelta(emotion) ==
    IF emotion \in DOMAIN emotion_map THEN emotion_map[emotion] ELSE 0

\* register_emotion that does not clamp intensity into [0,1].
register_emotion_unclamped(e, emotion, intensity, t) ==
    LET delta == (EmotionDelta(emotion) * intensity) \div One
        c == Max(-One, Min(One, e.emotional_charge + delta))
        m == DictSet(DictSet(e.metadata, "last_emotion", Some(emotion)),
                     "last_emotion_time", Some(t))
    IN Done(touch([e EXCEPT !.emotional_charge = c, !.metadata = m], t))

\* register_emotion that moves strength by the same delta as the charge.
register_emotion_strengthening(e, emotion, intensity, t) ==
    LET delta == (EmotionDelta(emotion) * Max(0, Min(One, intensity))) \div One
        c == Max(-One, Min(One, e.emotional_charge + delta))
        s == Max(0, Min(One, e.strength + delta))
        m == DictSet(DictSet(e.metadata, "last_emotion", Some(emotion)),
                     "last_emotion_time", Some(t))
    IN Done(touch([e EXCEPT !.emotional_charge = c, !.strength = s, !.metadata = m], t))

\* register_emotion that rejects a name outside the table.
register_emotion_validating(e, emotion, intensity, t) ==
    IF emotion \notin DOMAIN emotion_map
    THEN Raise(e)
    ELSE LET delta == (EmotionDelta(emotion) * Max(0, Min(One, intensity))) \div One
             c == Max(-One, Min(One, e.emotional_charge + delta))
             m == DictSet(DictSet(e.metadata, "last_emotion", Some(emotion)),
                          "last_emotion_time", Some(t))
         IN Done(touch([e EXCEPT !.emotional_charge = c, !.metadata = m], t))

\* intensity is a fixed-point number too, so the product is divided by One;
\* the intensities of the model make the division exact.
register_emotion(e, emotion, intensity, t) ==
    LET delta == (EmotionDelta(emotion) * Max(0, Min(One, intensity))) \div One
        c == Max(-One, Min(One, e.emotional_charge + delta))
        m == DictSet(DictSet(e.metadata, "last_emotion", Some(emotion)),
                     "last_emotion_time", Some(t))
    IN Done(touch([e EXCEPT !.emotional_charge = c, !.metadata = m], t))

\* cool_down that always moves the charge by rate, without the snap to 0.
cool_down_overshooting(e, rate) ==
    Done([e EXCEPT !.emotional_charge = IF @ > 0 THEN @ - rate ELSE @ + rate])

cool_down(e, rate) ==
    Done([e EXCEPT !.emotional_charge =
              IF Abs(@) < rate THEN 0
              ELSE IF @ > 0 THEN @ - rate
              ELSE @ + rate])

should_prune_inclusive(e, threshold) == e.strength <= threshold

should_prune(e, threshold) == e.strength < threshold

\* decay(base_rate), called by practice.py on every edge: strength loses
\* base_rate x (time since last_used) x (1 - max(0.3, strength)) and is
\* clamped into [0,1]; the emotional charge cools down by base_rate x (time
\* since last_used).  base_rate is given per hour on the One grid, t is
\* what time.time() returns.
decay(e, base_rate, t) ==
    LET elapsed == Max(0, t - e.last_used)
        importance_factor == Max((3 * One) \div 10, e.strength)
        decay_amount == (base_rate * elapsed * (One - importance_factor)) \div (Hour * One)
        cooled == cool_down(e, (base_rate * elapsed) \div Hour).edge
    IN Done([cooled EXCEPT !.strength = Max(0, Min(One, e.strength - decay_amount))])

\* Edge(...) with created_at and last_used passed by the caller.
EdgeAt(id, src, dst, strength, charge, created_at, last_used) ==
    [NewEdge(id, src, dst, strength, charge, created_at) EXCEPT !.last_used = last_used]

\* Edge.recency_factor(now), in Milli: 1 / (1 + elapsed / 3600).
recency_factor(e, at, t) ==
    LET elapsed == Max(0, OrElse(at, t) - e.last_used)
    IN (Milli * Hour) \div (Hour + elapsed)

\* Edge.importance_score(now), in One * Milli:
\* max(0, strength * recency * (1 + emotional_charge * 0.2)).
importance_score(e, at, t) ==
    Max(0, (e.strength * recency_factor(e, at, t) * (5 * One + e.emotional_charge))
               \div (5 * One))

----------------------------------------------------------------------------
(* Node: core/node.py *)

\* Node.__init__ with every argument the model uses; created_at and
\* last_accessed are optional, t is what time.time() returns.
Node(id, type, confidence, created_at, last_accessed, persistent, memory_strength, t) ==
    LET created == OrElse(created_at, t)
    IN [node_id |-> id,
        node_type |-> type,
        confidence |-> Max(0, Min(ConfOne, confidence)),
        created_at |-> created,
        last_accessed |-> OrElse(last_accessed, created),
        memory_strength |-> Max(memory_strength, 1),
        persistent |-> persistent]

\* Node(node_id, node_type, confidence=...): the other arguments default.
NewNode(id, type, confidence, t) ==
    Node(id, type, confidence, None, None, FALSE, Hour, t)

\* math.exp(-elapsed / S) in Milli, for elapsed >= 0 and S >= 1: the
\* reciprocal of the Taylor sum of exp(elapsed / S), every term rounded down,
\* and 0 from ExpCut on (exp(-7) < 0.001).  Non-increasing in elapsed.
ExpTerms == 24
ExpCut == 7

RECURSIVE ExpSum(_, _, _, _)
ExpSum(term, k, elapsed, S) ==
    IF k > ExpTerms THEN 0
    ELSE IF term = 0 THEN 0
    ELSE term + ExpSum((term * elapsed) \div (S * k), k + 1, elapsed, S)

ExpNeg(elapsed, S) ==
    IF elapsed >= ExpCut * S THEN 0
    ELSE (Milli * Milli) \div ExpSum(Milli, 1, elapsed, S)

\* availability that ignores `persistent`.
availability_forgetting(n, at, t) ==
    LET elapsed == Max(0, OrElse(at, t) - n.last_accessed)
    IN ExpNeg(elapsed, n.memory_strength)

\* availability without max(0.0, ...): exp of a positive number before
\* last_accessed.
availability_unclamped(n, at, t) ==
    LET d == OrElse(at, t) - n.last_accessed
    IN IF n.persistent THEN Milli
       ELSE IF d >= 0 THEN ExpNeg(d, n.memory_strength)
       ELSE IF -d >= ExpCut * n.memory_strength THEN Milli * Milli
       ELSE ExpSum(Milli, 1, -d, n.memory_strength)

\* Node.availability(now), in Milli.  memory_strength is at least 1 after
\* __init__ and reinforce keeps it so: max(memory_strength, 1e-6) is
\* memory_strength.
availability(n, at, t) ==
    IF n.persistent THEN Milli
    ELSE LET elapsed == Max(0, OrElse(at, t) - n.last_accessed)
         IN ExpNeg(elapsed, n.memory_strength)

\* Node.reinforce(amount), amount on the One grid; 0.05 is ConfOne \div 20.
reinforce_node(n, amount, t) ==
    [n EXCEPT !.last_accessed = t,
              !.memory_strength = Min((@ * (One + Max(0, amount))) \div One, Week),
              !.confidence = Min(ConfOne, @ + ConfOne \div 20)]

\* Node.retrieval_score(now), in ConfOne * Milli.
retrieval_score(n, at, t) == n.confidence * availability(n, at, t)

----------------------------------------------------------------------------
(* Dialograph: core/graph.py *)

\* The elements of a sequence.
Range(s) == {s[i] : i \in DOMAIN s}

\* The sequence s without the element x.
Without(s, x) ==
    LET Keep(y) == y # x
    IN SelectSeq(s, Keep)

\* nx.MultiDiGraph(): the node set, and the adjacency as networkx keeps it:
\* one entry <<u, v, keys>> per connected pair, in the order the pairs were
\* first connected, with the pair's edge keys in the order they were added.
\* (The order of the nodes themselves is not modelled: no result depends on
\* it.)
EmptyGraph == [node |-> {}, adj |-> <<>>]

\* The position of the pair (u, v) in the adjacency, 0 when it has none.
PairIndex(adj, u, v) ==
    LET at == {i \in DOMAIN adj : adj[i][1] = u /\ adj[i][2] = v}
    IN IF at = {} THEN 0 ELSE CHOOSE i \in at : TRUE

\* MultiDiGraph.add_node(n).
nx_add_node(g, n) == [g EXCEPT !.node = @ \cup {n}]

\* MultiDiGraph.add_edge(u, v, key=k): adds the endpoints that are not yet
\* nodes, and the key k under (u, v) unless it is there already.
nx_add_edge(g, u, v, k) ==
    LET i == PairIndex(g.adj, u, v)
    IN [node |-> g.node \cup {u, v},
        adj |-> IF i = 0 THEN Append(g.adj, <<u, v, <<k>>>>)
                ELSE IF k \in Range(g.adj[i][3]) THEN g.adj
                ELSE [g.adj EXCEPT ![i][3] = Append(@, k)]]

\* MultiDiGraph.remove_edge(u, v, key=k): the nodes stay; a pair that loses
\* its last key leaves the adjacency.
nx_remove_edge(g, u, v, k) ==
    LET i == PairIndex(g.adj, u, v)
    IN IF i = 0 THEN g
       ELSE LET keys == Without(g.adj[i][3], k)
            IN [g EXCEPT !.adj =
                   IF keys = <<>> THEN Without(@, g.adj[i])
                   ELSE [@ EXCEPT ![i][3] = keys]]

\* MultiDiGraph.has_edge(u, v).
nx_has_edge(g, u, v) == PairIndex(g.adj, u, v) # 0

\* graph[u][v].keys(): the keys of the pair, in insertion order.
nx_keys(g, u, v) == g.adj[PairIndex(g.adj, u, v)][3]

\* MultiDiGraph.out_edges(u, keys=True), as the sequence of its keys: the
\* pairs leaving u in adjacency order, each with its keys in order.
RECURSIVE OutKeys(_, _)
OutKeys(adj, u) ==
    IF adj = <<>> THEN <<>>
    ELSE (IF Head(adj)[1] = u THEN Head(adj)[3] ELSE <<>>)
         \o OutKeys(Tail(adj), u)

nx_out_edges(g, u) == OutKeys(g.adj, u)

\* Every <<u, v, key>> of the adjacency, as a set.
nx_edges(g) ==
    UNION {{<<g.adj[i][1], g.adj[i][2], k>> : k \in Range(g.adj[i][3])} :
               i \in DOMAIN g.adj}

\* The number of keys the adjacency holds.
RECURSIVE KeyCount(_)
KeyCount(adj) ==
    IF adj = <<>> THEN 0 ELSE Len(Head(adj)[3]) + KeyCount(Tail(adj))

nx_number_of_edges(g) == KeyCount(g.adj)

\* Dialograph.__init__.
NewDialograph ==
    [nodes |-> EmptyDict, edges |-> EmptyDict, edge_keys |-> <<>>,
     graph |-> EmptyGraph]

\* self.edges[k] = e: a new key goes to the end of the dict.
EdgesSet(self, k, e) ==
    [self EXCEPT
         !.edges = DictSet(@, k, e),
         !.edge_keys = IF k \in DOMAIN self.edges THEN @ ELSE Append(@, k)]

\* A method's outcome: the Dialograph after the call, whether it raised, and
\* the value returned.
Returns(self, v) == [self |-> self, raised |-> FALSE, ret |-> v]
Fails(self) == [self |-> self, raised |-> TRUE, ret |-> None]

add_node_overwriting(self, node) ==
    Returns([self EXCEPT
                 !.nodes = DictSet(@, node.node_id, node),
                 !.graph = nx_add_node(@, node.node_id)], None)

add_node(self, node) ==
    IF node.node_id \in DOMAIN self.nodes
    THEN Fails(self)
    ELSE Returns([self EXCEPT
                      !.nodes = DictSet(@, node.node_id, node),
                      !.graph = nx_add_node(@, node.node_id)], None)

add_edge_storing_first(self, e) ==
    LET stored == EdgesSet(self, e.edge_id, e)
    IN IF e.edge_id \in DOMAIN self.edges
       THEN Fails(self)
       ELSE IF e.source_node_id \notin DOMAIN self.nodes
       THEN Fails(self)
       ELSE IF e.target_node_id \notin DOMAIN self.nodes
       THEN Fails(stored)
       ELSE Returns([stored EXCEPT
                         !.graph = nx_add_edge(@, e.source_node_id,
                                               e.target_node_id, e.edge_id)],
                    None)

add_edge(self, e) ==
    IF e.edge_id \in DOMAIN self.edges
    THEN Fails(self)
    ELSE IF e.source_node_id \notin DOMAIN self.nodes
    THEN Fails(self)
    ELSE IF e.target_node_id \notin DOMAIN self.nodes
    THEN Fails(self)
    ELSE Returns([EdgesSet(self, e.edge_id, e) EXCEPT
                      !.graph = nx_add_edge(@, e.source_node_id,
                                            e.target_node_id, e.edge_id)],
                 None)

\* What save pickles: the two mappings (a pickled dict keeps its key
\* order), not the networkx graph.
save(self) ==
    [nodes |-> self.nodes, edges |-> self.edges, edge_keys |-> self.edge_keys]

\* The graph load rebuilds: add_node for every node id, then add_edge for
\* every edge in the order of the edge mapping.
RECURSIVE AddNodes(_, _)
AddNodes(g, ids) ==
    IF ids = {} THEN g
    ELSE LET n == CHOOSE x \in ids : TRUE
         IN AddNodes(nx_add_node(g, n), ids \ {n})

RECURSIVE AddEdges(_, _, _)
AddEdges(g, es, keys) ==
    IF keys = <<>> THEN g
    ELSE LET k == Head(keys)
         IN AddEdges(nx_add_edge(g, es[k].source_node_id,
                                 es[k].target_node_id, es[k].edge_id),
                     es, Tail(keys))

load_keeping_graph(self, data) ==
    Returns([nodes |-> data.nodes, edges |-> data.edges,
             edge_keys |-> data.edge_keys, graph |-> self.graph],
            None)

\* load that updates the mappings it holds instead of replacing them.
load_updating(self, data) ==
    LET ns == [k \in DOMAIN self.nodes \cup DOMAIN data.nodes |->
                  IF k \in DOMAIN data.nodes THEN data.nodes[k] ELSE self.nodes[k]]
        es == [k \in DOMAIN self.edges \cup DOMAIN data.edges |->
                  IF k \in DOMAIN data.edges THEN data.edges[k] ELSE self.edges[k]]
        NotLoaded(k) == k \notin DOMAIN data.edges
        ks == data.edge_keys \o SelectSeq(self.edge_keys, NotLoaded)
    IN Returns([nodes |-> ns, edges |-> es, edge_keys |-> ks,
                graph |-> AddEdges(AddNodes(EmptyGraph, DOMAIN ns), es, ks)],
               None)

\* load, given the unpickled content of the file.
load(self, data) ==
    Returns([nodes |-> data.nodes,
             edges |-> data.edges,
             edge_keys |-> data.edge_keys,
             graph |-> AddEdges(AddNodes(EmptyGraph, DOMAIN data.nodes),
                                data.edges, data.edge_keys)],
            None)

\* prune_weak_edges(threshold), called by practice.py: removes every edge
\* that should_prune(threshold), from the edge mapping and from the
\* adjacency structure, and returns how many it removed.
RECURSIVE RemoveEdges(_, _, _)
RemoveEdges(g, es, keys) ==
    IF keys = {} THEN g
    ELSE LET k == CHOOSE x \in keys : TRUE
         IN RemoveEdges(nx_remove_edge(g, es[k].source_node_id,
                                       es[k].target_node_id, k),
                        es, keys \ {k})

prune_weak_edges(self, threshold) ==
    LET weak == {k \in DOMAIN self.edges : should_prune(self.edges[k], threshold)}
        Kept(k) == k \notin weak
    IN Returns([self EXCEPT
                    !.edges = [k \in (DOMAIN @) \ weak |-> @[k]],
                    !.edge_keys = SelectSeq(@, Kept),
                    !.graph = RemoveEdges(@, self.edges, weak)],
               Some(Cardinality(weak)))

\* get_edges that looks the pair up in both directions.
get_edges_either_way(self, src, dst) ==
    LET ks == (IF nx_has_edge(self.graph, src, dst)
               THEN nx_keys(self.graph, src, dst) ELSE <<>>)
              \o (IF src # dst /\ nx_has_edge(self.graph, dst, src)
                  THEN nx_keys(self.graph, dst, src) ELSE <<>>)
    IN Returns(self, Some([i \in DOMAIN ks |-> self.edges[ks[i]]]))

\* get_edges(src, dst): the edges stored under the keys of the pair, in key
\* order; has_edge is false for a pair with a missing node.
get_edges(self, src, dst) ==
    IF ~nx_has_edge(self.graph, src, dst)
    THEN Returns(self, Some(<<>>))
    ELSE LET ks == nx_keys(self.graph, src, dst)
         IN Returns(self, Some([i \in DOMAIN ks |-> self.edges[ks[i]]]))

\* outgoing_edges(node_id): the list the loop builds (out_edges of an id
\* that is no node, and none of whose characters is one, is empty).
outgoing_edges(self, node_id) ==
    LET ks == nx_out_edges(self.graph, node_id)
    IN [i \in DOMAIN ks |-> self.edges[ks[i]]]

\* list.sort(key=score, reverse=True): stable, so an element goes behind
\* every element already placed whose score is at least its own.
RECURSIVE InsertDesc(_, _)
InsertDesc(sorted, x) ==
    IF sorted = <<>> THEN <<x>>
    ELSE IF Head(sorted)[1] >= x[1] THEN <<Head(sorted)>> \o InsertDesc(Tail(sorted), x)
    ELSE <<x>> \o sorted

RECURSIVE SortDesc(_)
SortDesc(s) ==
    IF s = <<>> THEN <<>>
    ELSE InsertDesc(SortDesc(SubSeq(s, 1, Len(s) - 1)), s[Len(s)])

\* results[:top_k]; a negative top_k counts from the end.
Slice(s, top_k) ==
    SubSeq(s, 1, IF top_k >= 0 THEN Min(top_k, Len(s)) ELSE Max(0, Len(s) + top_k))

ContextMatch_zero(fn, n) == IF fn = None THEN 0 ELSE fn[1][n.node_type]

\* context_match_fn(node) if context_match_fn else 1.0, on the One grid; a
\* matching function is given by its value per node type.
ContextMatch(fn, n) == IF fn = None THEN One ELSE fn[1][n.node_type]

\* retrieve_neighbors that marks every edge it traverses as used.
retrieve_neighbors_touching(self, source_node_id, top_k, fn, at, t) ==
    LET at1 == OrElse(at, t)
        out == outgoing_edges(self, source_node_id)
        results == [i \in DOMAIN out |->
                       LET n == self.nodes[out[i].target_node_id]
                       IN <<retrieval_score(n, Some(at1), t)
                              * importance_score(out[i], Some(at1), t)
                              * ContextMatch(fn, n),
                            n, out[i]>>]
        used == {out[i].edge_id : i \in DOMAIN out}
    IN Returns([self EXCEPT !.edges = [k \in DOMAIN @ |->
                                          IF k \in used THEN touch(@[k], t) ELSE @[k]]],
               Some(Slice(SortDesc(results), top_k)))

\* retrieve_neighbors(source_node_id, top_k, context_match_fn, now); t is
\* what time.time() returns.
retrieve_neighbors(self, source_node_id, top_k, fn, at, t) ==
    LET at1 == OrElse(at, t)
        out == outgoing_edges(self, source_node_id)
        results == [i \in DOMAIN out |->
                       LET n == self.nodes[out[i].target_node_id]
                       IN <<retrieval_score(n, Some(at1), t)
                              * importance_score(out[i], Some(at1), t)
                              * ContextMatch(fn, n),
                            n, out[i]>>]
    IN Returns(self, Some(Slice(SortDesc(results), top_k)))

\* subgraph_at_time(t): the graph it builds and returns.
subgraph_at_time(self, t) ==
    LET old == {k \in DOMAIN self.nodes : self.nodes[k].created_at <= t}
        Old(k) == self.edges[k].created_at <= t
    IN Returns(self,
               Some(AddEdges(AddNodes(EmptyGraph, {self.nodes[k].node_id : k \in old}),
                             self.edges, SelectSeq(self.edge_keys, Old))))

----------------------------------------------------------------------------
(* SpecEdge: one Edge object and every call a caller can make on it *)

\* Constructor arguments <<source_node_id, strength, emotional_charge>>: in
\* range, outside the ranges on either side, and with an empty endpoint id.
CtorArgs == {<<"a", 5, 0>>, <<"a", 13, -14>>, <<"a", -3, 12>>, <<"", 5, 0>>}

\* schedule_reinforcement amounts: 0.2 and -0.6 in range, +-1.2 outside.
ScheduleAmounts == {-12, -6, 2, 12}

\* reinforce / weaken amounts, a negative one included.
StepAmounts == {-2, 3}

Emotions == {"excited", "angry", "confused"}
Intensities == {10}

\* cool_down rates (the documented rate >= 0): none, 0.4, and one larger
\* than any charge.
CoolRates == {0, 4, 30}

NoCall == [op |-> "none"]

\* The model follows an edge only while its strength is this close to its
\* range; the code itself has no such limit.
Followed(e) == e.strength >= -MaxDeficit

\* The frame of every Edge call: the graph is not involved.
EdgeFrame == UNCHANGED <<node_obj, now, nodes, edges, edge_keys, graph, disk, server, html_file>>

\* A method call on the edge with outcome r.
EdgeCall(c, r) ==
    /\ Followed(r.edge)
    /\ edge' = r.edge
    /\ raised' = r.raised
    /\ call' = c
    /\ ret' = None
    /\ EdgeFrame

Construct ==
    \E a \in CtorArgs :
        EdgeCall([op |-> "Edge", args |-> a],
                 IF EdgeCtorRaises(a[1], "b")
                 THEN Raise(edge)
                 ELSE Done(NewEdge("e1", a[1], "b", a[2], a[3], now)))

\* The call record keeps the pending slot the call found.
ScheduleReinforcement ==
    \E a \in ScheduleAmounts :
        EdgeCall([op |-> "schedule_reinforcement", amount |-> a,
                  pending |-> edge.pending_reinforcement],
                 schedule_reinforcement(edge, a))

ApplyReinforcement ==
    \E success \in BOOLEAN :
        EdgeCall([op |-> "apply_reinforcement", success |-> success,
                  pending |-> edge.pending_reinforcement,
                  strength |-> edge.strength],
                 apply_reinforcement(edge, success, now))

Reinforce ==
    \E a \in StepAmounts :
        EdgeCall([op |-> "reinforce", amount |-> a], reinforce(edge, a, now))

Weaken ==
    \E a \in StepAmounts :
        EdgeCall([op |-> "weaken", amount |-> a], weaken(edge, a, now))

RegisterEmotion ==
    \E em \in Emotions, i \in Intensities :
        EdgeCall([op |-> "register_emotion", emotion |-> em, intensity |-> i],
                 register_emotion(edge, em, i, now))

CoolDown ==
    \E r \in CoolRates :
        EdgeCall([op |-> "cool_down", rate |-> r], cool_down(edge, r))

\* Time passes between two calls.
Tick ==
    /\ now < MaxTime
    /\ now' = now + 1
    /\ UNCHANGED <<edge, node_obj, call, raised, ret, nodes, edges, edge_keys, graph, disk, server, html_file>>

EdgeInit ==
    /\ now = 0
    /\ edge \in {NewEdge("e1", a[1], "b", a[2], a[3], 0) :
                    a \in {x \in CtorArgs : ~EdgeCtorRaises(x[1], "b")}}
    /\ node_obj = NewNode("n", "problem", ConfOne, 0)
    /\ call = NoCall
    /\ raised = FALSE
    /\ ret = None
    /\ nodes = EmptyDict
    /\ edges = EmptyDict
    /\ edge_keys = <<>>
    /\ graph = EmptyGraph
    /\ disk = None
    /\ server = None
    /\ html_file = None

EdgeNext ==
    \/ Construct
    \/ ScheduleReinforcement
    \/ ApplyReinforcement
    \/ Reinforce
    \/ Weaken
    \/ RegisterEmotion
    \/ CoolDown
    \/ Tick

SpecEdge == EdgeInit /\ [][EdgeNext]_vars

----------------------------------------------------------------------------
(* SpecDecay: one Edge object that is reinforced, used and left to decay *)

\* decay base rates per hour (One grid): none, 1.0 and 2.0.
DecayRates == {0, 10, 20}

Decay ==
    \E r \in DecayRates :
        EdgeCall([op |-> "decay", base_rate |-> r, elapsed |-> Max(0, now - edge.last_used)],
                 decay(edge, r, now))

\* An hour passes between two calls.
HourTick ==
    /\ now < MaxTime * Hour
    /\ now' = now + Hour
    /\ UNCHANGED <<edge, node_obj, call, raised, ret, nodes, edges, edge_keys, graph, disk, server, html_file>>

DecayNext ==
    \/ Construct
    \/ ScheduleReinforcement
    \/ ApplyReinforcement
    \/ RegisterEmotion
    \/ Decay
    \/ HourTick

SpecDecay == EdgeInit /\ [][DecayNext]_vars

----------------------------------------------------------------------------
(* SpecGraph: one Dialograph, one file, and the calls a caller makes *)

\* Node(...) arguments <<node_id, node_type, confidence>>: two different
\* nodes share the id "a".
NodeArgs == {<<"a", "problem", 20>>, <<"a", "strategy", 10>>, <<"b", "strategy", 20>>}

\* Edge(...) arguments <<edge_id, source, target, strength>>: both edge ids
\* with two choices each, giving parallel edges (e1, e2: a -> b), opposite
\* directions (e1: b -> a) and a self-loop (e2: a -> a).
EdgeArgs ==
    {<<"e1", "a", "b", 2>>, <<"e1", "b", "a", 7>>,
     <<"e2", "a", "b", 7>>, <<"e2", "a", "a", 2>>}

\* prune_weak_edges thresholds: below every strength, equal to one (0.2),
\* between the two, above both.
Thresholds == {0, 2, 5, 11}

\* What callers do with a stored edge, and with which: schedule 0.2,
\* register "angry".
UsedKeys == {"e2"}
StoredAmount == 2
StoredEmotion == "angry"

Self == [nodes |-> nodes, edges |-> edges, edge_keys |-> edge_keys, graph |-> graph]

\* A method call on the Dialograph with outcome r.
GraphCall(c, r) ==
    /\ nodes' = r.self.nodes
    /\ edges' = r.self.edges
    /\ edge_keys' = r.self.edge_keys
    /\ graph' = r.self.graph
    /\ raised' = r.raised
    /\ ret' = r.ret
    /\ call' = c
    /\ UNCHANGED <<edge, node_obj, now, server, html_file>>

AddNode ==
    \E a \in NodeArgs :
        LET n == NewNode(a[1], a[2], a[3], now)
        IN /\ GraphCall([op |-> "add_node", node |-> n], add_node(Self, n))
           /\ UNCHANGED disk

AddEdge ==
    \E a \in EdgeArgs :
        LET e == NewEdge(a[1], a[2], a[3], a[4], 0, now)
        IN /\ GraphCall([op |-> "add_edge", edge |-> e], add_edge(Self, e))
           /\ UNCHANGED disk

Save ==
    /\ disk' = Some(save(Self))
    /\ GraphCall([op |-> "save"], Returns(Self, None))

\* open() raises when no file was written.  The call record keeps the ids
\* the graph held when load was called.
Load ==
    /\ GraphCall([op |-> "load",
                  held |-> [nodes |-> DOMAIN nodes, edges |-> DOMAIN edges]],
                 IF disk = None THEN Fails(Self) ELSE load(Self, disk[1]))
    /\ UNCHANGED disk

\* A caller uses an edge it got from the graph: the Edge objects of the edge
\* mapping are shared with the caller, so the call changes the stored edge.
ScheduleStored ==
    \E k \in DOMAIN edges \cap UsedKeys :
        LET r == schedule_reinforcement(edges[k], StoredAmount)
        IN /\ GraphCall([op |-> "schedule_reinforcement", key |-> k,
                          amount |-> StoredAmount],
                         IF r.raised THEN Fails(Self)
                         ELSE Returns([Self EXCEPT !.edges[k] = r.edge], None))
           /\ UNCHANGED disk

RegisterStored ==
    \E k \in DOMAIN edges \cap UsedKeys :
        LET r == register_emotion(edges[k], StoredEmotion, One, now)
        IN /\ GraphCall([op |-> "register_emotion", key |-> k,
                          emotion |-> StoredEmotion],
                         Returns([Self EXCEPT !.edges[k] = r.edge], None))
           /\ UNCHANGED disk

PruneWeakEdges ==
    \E t \in Thresholds :
        /\ GraphCall([op |-> "prune_weak_edges", threshold |-> t],
                     prune_weak_edges(Self, t))
        /\ UNCHANGED disk

GraphInit ==
    /\ now = 0
    /\ edge = NewEdge("e1", "a", "b", 5, 0, 0)
    /\ node_obj = NewNode("n", "problem", ConfOne, 0)
    /\ call = NoCall
    /\ raised = FALSE
    /\ ret = None
    /\ nodes = NewDialograph.nodes
    /\ edges = NewDialograph.edges
    /\ edge_keys = NewDialograph.edge_keys
    /\ graph = NewDialograph.graph
    /\ disk = None
    /\ server = None
    /\ html_file = None

GraphNext ==
    \/ AddNode
    \/ AddEdge
    \/ Save
    \/ Load
    \/ PruneWeakEdges

SpecGraph == GraphInit /\ [][GraphNext]_vars

\* SpecStore: SpecGraph with callers that also use the stored edges, so that
\* what is saved and loaded carries pending amounts and metadata.
StoreNext ==
    \/ GraphNext
    \/ ScheduleStored
    \/ RegisterStored

SpecStore == GraphInit /\ [][StoreNext]_vars

----------------------------------------------------------------------------
(* SpecQuery: one Dialograph built by a caller, and the read operations *)

\* Node(...) arguments <<node_id, node_type, confidence, created_at>>: "b"
\* comes in two versions, "c" is created two hours after the others.
QNodeArgs ==
    {<<"a", "problem", 20, Hour>>, <<"b", "strategy", 20, Hour>>,
     <<"b", "problem", 10, Hour>>, <<"c", "strategy", 16, 3 * Hour>>}

\* Edge(...) arguments <<edge_id, source, target, strength, created_at>>,
\* last_used = created_at: e1 and e2 are parallel and alike, e3 is either
\* older than its target "c" or runs opposite to e1 and e2.
QEdgeArgs ==
    {<<"e1", "a", "b", 5, Hour>>, <<"e2", "a", "b", 5, Hour>>,
     <<"e3", "a", "c", 7, 2 * Hour>>, <<"e3", "b", "a", 5, Hour>>}

\* Arguments of the read operations.  "z" is never a node.
QueryIds == {"a", "b", "c", "z"}
Sources == {"a", "b", "z"}
TopKs == {-1, 0, 1, 2, 5}
ContextFns == {None, Some([problem |-> One, strategy |-> One \div 2])}
QueryTimes == {None, Some(2 * Hour), Some(3 * Hour)}
SnapshotTimes == {0, Hour, 2 * Hour, 3 * Hour}

\* A read operation: nothing but the call's outcome changes.
QueryCall(c, r) ==
    /\ GraphCall(c, r)
    /\ UNCHANGED disk

QAddNode ==
    \E a \in QNodeArgs :
        LET n == Node(a[1], a[2], a[3], Some(a[4]), None, FALSE, Hour, now)
        IN QueryCall([op |-> "add_node", node |-> n], add_node(Self, n))

QAddEdge ==
    \E a \in QEdgeArgs :
        LET e == EdgeAt(a[1], a[2], a[3], a[4], 0, a[5], a[5])
        IN QueryCall([op |-> "add_edge", edge |-> e], add_edge(Self, e))

GetEdges ==
    \E src \in QueryIds, dst \in QueryIds :
        QueryCall([op |-> "get_edges", src |-> src, dst |-> dst],
                  get_edges(Self, src, dst))

RetrieveNeighbors ==
    \E src \in Sources, k \in TopKs, fn \in ContextFns, at \in QueryTimes :
        QueryCall([op |-> "retrieve_neighbors", source |-> src, top_k |-> k,
                   fn |-> fn, at |-> at],
                  retrieve_neighbors(Self, src, k, fn, at, now))

SubgraphAtTime ==
    \E t \in SnapshotTimes :
        QueryCall([op |-> "subgraph_at_time", t |-> t], subgraph_at_time(Self, t))

\* The caller's session takes place four hours after the epoch of the model.
QueryInit ==
    /\ now = 4 * Hour
    /\ edge = NewEdge("e1", "a", "b", 5, 0, 0)
    /\ node_obj = NewNode("n", "problem", ConfOne, 0)
    /\ call = NoCall
    /\ raised = FALSE
    /\ ret = None
    /\ nodes = NewDialograph.nodes
    /\ edges = NewDialograph.edges
    /\ edge_keys = NewDialograph.edge_keys
    /\ graph = NewDialograph.graph
    /\ disk = None
    /\ server = None
    /\ html_file = None

QueryNext ==
    \/ QAddNode
    \/ QAddEdge
    \/ GetEdges
    \/ RetrieveNeighbors
    \/ SubgraphAtTime

SpecQuery == QueryInit /\ [][QueryNext]_vars

----------------------------------------------------------------------------
(* SpecNode: one Node object and every call a caller can make on it *)

\* Node(...) arguments <<confidence, last_accessed, persistent,
\* memory_strength>>: confidence below, inside and above [0,1] (on the
\* ConfOne grid), last_accessed missing or ahead of the clock, a
\* memory_strength below 1, the default, and one above a week.
NodeCtorArgs ==
    {<<-5, None, FALSE, 0>>, <<18, None, FALSE, Hour>>,
     <<30, Some(3 * Hour), FALSE, Hour>>, <<10, None, TRUE, Hour>>,
     <<10, None, FALSE, 1000000>>}

\* reinforce amounts (One grid): negative, zero, doubling, tenfold.
NodeAmounts == {-5, 0, 10, 90}

\* availability's now argument: missing, 0, and times around the clock.
AvailabilityTimes == {None, Some(0), Some(Hour \div 2), Some(Hour), Some(2 * Hour), Some(3 * Hour)}

\* A call on the Node: nothing else changes.
NodeCall(c, n, v) ==
    /\ node_obj' = n
    /\ call' = c
    /\ raised' = FALSE
    /\ ret' = v
    /\ UNCHANGED <<edge, now, nodes, edges, edge_keys, graph, disk, server, html_file>>

NodeConstruct ==
    \E a \in NodeCtorArgs :
        NodeCall([op |-> "Node", confidence |-> a[1], memory_strength |-> a[4]],
                 Node("n", "problem", a[1], None, a[2], a[3], a[4], now), None)

NodeReinforce ==
    \E amount \in NodeAmounts :
        NodeCall([op |-> "reinforce", amount |-> amount],
                 reinforce_node(node_obj, amount, now), None)

Availability ==
    \E at \in AvailabilityTimes :
        NodeCall([op |-> "availability", at |-> at],
                 node_obj, Some(availability(node_obj, at, now)))

\* The wall clock moves on by an hour.
NodeTick ==
    /\ now < (1 + MaxTime) * Hour
    /\ now' = now + Hour
    /\ UNCHANGED <<edge, node_obj, call, raised, ret, nodes, edges, edge_keys, graph, disk, server, html_file>>

NodeInit ==
    /\ now = Hour
    /\ node_obj \in {Node("n", "problem", a[1], None, a[2], a[3], a[4], Hour) : a \in NodeCtorArgs}
    /\ edge = NewEdge("e1", "a", "b", 5, 0, 0)
    /\ call = NoCall
    /\ raised = FALSE
    /\ ret = None
    /\ nodes = EmptyDict
    /\ edges = EmptyDict
    /\ edge_keys = <<>>
    /\ graph = EmptyGraph
    /\ disk = None
    /\ server = None
    /\ html_file = None

NodeNext ==
    \/ NodeConstruct
    \/ NodeReinforce
    \/ Availability
    \/ NodeTick

SpecNode == NodeInit /\ [][NodeNext]_vars

----------------------------------------------------------------------------
(* SpecRead: a small Dialograph, the clock, and every read operation *)

\* Node(...) arguments <<node_id, confidence>> and Edge(...) arguments
\* <<edge_id, strength>>: two nodes created at Hour, two parallel edges
\* a -> b created and last used at Hour.
RNodeArgs == {<<"a", 20>>, <<"b", 18>>}
REdgeArgs == {<<"e1", 5>>, <<"e2", 7>>}

\* The now argument of the read operations: missing, 0, and two instants.
ReadTimes == {None, Some(0), Some(Hour), Some(3 * Hour)}

\* The node a caller reinforces and by how much (tenfold memory_strength).
ReinforcedIds == {"b"}
ReinforceAmount == 90

RAddNode ==
    \E a \in RNodeArgs :
        LET n == Node(a[1], "strategy", a[2], Some(Hour), None, FALSE, Hour, now)
        IN QueryCall([op |-> "add_node", node |-> n], add_node(Self, n))

RAddEdge ==
    \E a \in REdgeArgs :
        LET e == EdgeAt(a[1], "a", "b", a[2], 0, Hour, Hour)
        IN QueryCall([op |-> "add_edge", edge |-> e], add_edge(Self, e))

\* A caller reinforces a node it got from the graph: the Node objects of
\* the node mapping are shared with the caller.
ReinforceStored ==
    \E k \in DOMAIN nodes \cap ReinforcedIds :
        QueryCall([op |-> "reinforce", id |-> k, amount |-> ReinforceAmount],
                  Returns([Self EXCEPT !.nodes[k] = reinforce_node(@, ReinforceAmount, now)],
                          None))

NodeAvailability ==
    \E k \in DOMAIN nodes, at \in ReadTimes :
        QueryCall([op |-> "availability", id |-> k, at |-> at],
                  Returns(Self, Some(availability(nodes[k], at, now))))

NodeRetrievalScore ==
    \E k \in DOMAIN nodes, at \in ReadTimes :
        QueryCall([op |-> "retrieval_score", id |-> k, at |-> at],
                  Returns(Self, Some(retrieval_score(nodes[k], at, now))))

EdgeRecencyFactor ==
    \E k \in DOMAIN edges, at \in ReadTimes :
        QueryCall([op |-> "recency_factor", id |-> k, at |-> at],
                  Returns(Self, Some(recency_factor(edges[k], at, now))))

EdgeImportanceScore ==
    \E k \in DOMAIN edges, at \in ReadTimes :
        QueryCall([op |-> "importance_score", id |-> k, at |-> at],
                  Returns(Self, Some(importance_score(edges[k], at, now))))

ReadNeighbors ==
    \E src \in {"a", "b"}, at \in ReadTimes :
        QueryCall([op |-> "retrieve_neighbors", source |-> src, top_k |-> 5,
                   fn |-> None, at |-> at],
                  retrieve_neighbors(Self, src, 5, None, at, now))

ReadEdges ==
    \E src \in {"a", "b"}, dst \in {"a", "b"} :
        QueryCall([op |-> "get_edges", src |-> src, dst |-> dst],
                  get_edges(Self, src, dst))

ReadOutgoing ==
    \E src \in {"a", "b"} :
        QueryCall([op |-> "outgoing_edges", id |-> src],
                  Returns(Self, Some(outgoing_edges(Self, src))))

ReadSnapshot ==
    \E t \in {0, Hour} :
        QueryCall([op |-> "subgraph_at_time", t |-> t], subgraph_at_time(Self, t))

\* The session starts an hour after the epoch of the model.
ReadInit ==
    /\ now = Hour
    /\ edge = NewEdge("e1", "a", "b", 5, 0, 0)
    /\ node_obj = NewNode("n", "problem", ConfOne, 0)
    /\ call = NoCall
    /\ raised = FALSE
    /\ ret = None
    /\ nodes = NewDialograph.nodes
    /\ edges = NewDialograph.edges
    /\ edge_keys = NewDialograph.edge_keys
    /\ graph = NewDialograph.graph
    /\ disk = None
    /\ server = None
    /\ html_file = None

ReadNext ==
    \/ RAddNode
    \/ RAddEdge
    \/ ReinforceStored
    \/ NodeAvailability
    \/ NodeRetrievalScore
    \/ EdgeRecencyFactor
    \/ EdgeImportanceScore
    \/ ReadNeighbors
    \/ ReadEdges
    \/ ReadOutgoing
    \/ ReadSnapshot
    \/ NodeTick

SpecRead == ReadInit /\ [][ReadNext]_vars

----------------------------------------------------------------------------
(* SpecEmotion: one Edge object, its emotional charge and its importance *)

\* Edge(...) arguments <<strength, emotional_charge>>.
EmotionCtorArgs == {<<7, 0>>, <<7, 8>>, <<5, -9>>}

\* register_emotion arguments <<emotion, intensity>>: names of the table
\* and one outside it, intensity below, inside and above [0,1]; each product
\* delta x intensity is on the One grid.
EmotionCalls ==
    {<<"happy", 10>>, <<"happy", 15>>, <<"excited", 5>>, <<"excited", -5>>,
     <<"angry", 10>>, <<"sad", 5>>, <<"curious", 10>>}

\* cool_down rates: none, a step, a larger step, more than any charge.
EmotionRates == {0, 1, 4, 30}

ERegisterEmotion ==
    \E a \in EmotionCalls :
        EdgeCall([op |-> "register_emotion", emotion |-> a[1], intensity |-> a[2]],
                 register_emotion(edge, a[1], a[2], now))

\* The call record keeps the charge the call found.
ECoolDown ==
    \E r \in EmotionRates :
        EdgeCall([op |-> "cool_down", rate |-> r, charge |-> edge.emotional_charge],
                 cool_down(edge, r))

\* importance_score() with no now argument: the clock is read.
EImportanceScore ==
    /\ ret' = Some(importance_score(edge, None, now))
    /\ call' = [op |-> "importance_score"]
    /\ raised' = FALSE
    /\ UNCHANGED <<edge, node_obj, now, nodes, edges, edge_keys, graph, disk, server, html_file>>

EmotionInit ==
    /\ now = Hour
    /\ edge \in {EdgeAt("e1", "a", "b", a[1], a[2], Hour, Hour) : a \in EmotionCtorArgs}
    /\ node_obj = NewNode("n", "problem", ConfOne, 0)
    /\ call = NoCall
    /\ raised = FALSE
    /\ ret = None
    /\ nodes = EmptyDict
    /\ edges = EmptyDict
    /\ edge_keys = <<>>
    /\ graph = EmptyGraph
    /\ disk = None
    /\ server = None
    /\ html_file = None

EmotionNext ==
    \/ ERegisterEmotion
    \/ ECoolDown
    \/ EImportanceScore
    \/ NodeTick

SpecEmotion == EmotionInit /\ [][EmotionNext]_vars

----------------------------------------------------------------------------
(* Claims about Edge, checked under SpecEdge *)

\* The step is the call `op` (Tick leaves `call` as it was, and moves `now`).
Calls(op) == call'.op = op /\ now' = now

InRange(amount) == -One <= amount /\ amount <= One

\* C1: after any sequence of Edge operations every edge has strength in
\* [0,1] and emotional_charge in [-1,1].
C1_FieldsInRange ==
    /\ 0 <= edge.strength /\ edge.strength <= One
    /\ -One <= edge.emotional_charge /\ edge.emotional_charge <= One

\* C5: schedule_reinforcement(amount) with amount outside [-1,1] raises and
\* leaves pending_reinforcement, strength and last_used unchanged; with
\* amount inside [-1,1] it stores exactly that amount in the pending slot.
C5_ScheduleRejectsOrStores ==
    [][Calls("schedule_reinforcement") =>
        IF InRange(call'.amount)
        THEN /\ ~raised'
             /\ edge'.pending_reinforcement = Some(call'.amount)
        ELSE /\ raised'
             /\ edge'.pending_reinforcement = edge.pending_reinforcement
             /\ edge'.strength = edge.strength
             /\ edge'.last_used = edge.last_used]_vars

\* C5 witness: an out-of-range request was rejected while an earlier
\* in-range amount (0.2) is still pending and the clock has moved on since
\* the edge was last used.
C5_Witness ==
    /\ call.op = "schedule_reinforcement"
    /\ ~InRange(call.amount)
    /\ raised
    /\ edge.pending_reinforcement = Some(2)
    /\ edge.last_used < now

\* C6: apply_reinforcement(success) with an empty pending slot changes no
\* field of the edge, for either value of success.
C6_ApplyWithoutPendingIsNoOp ==
    [][(Calls("apply_reinforcement") /\ edge.pending_reinforcement = None)
        => (edge' = edge /\ ~raised')]_vars

\* C6 witness: apply_reinforcement found the slot empty on an edge that was
\* last used before the current time and that carries metadata.
C6_Witness ==
    /\ call.op = "apply_reinforcement"
    /\ call.pending = None
    /\ edge.last_used < now
    /\ DOMAIN edge.metadata # {}

\* C7: apply_reinforcement(success=True) with pending amount p sets
\* strength to (old strength + p) clamped into [0,1], negative p included.
C7_SuccessAddsClamped ==
    [][(/\ Calls("apply_reinforcement")
        /\ call'.success
        /\ edge.pending_reinforcement # None)
        => edge'.strength =
               Max(0, Min(One, edge.strength + edge.pending_reinforcement[1]))]_vars

\* C8: apply_reinforcement(success=False) with pending amount p sets
\* strength to max(0, old strength - |p|/2), whatever the sign of p.
C8_FailureSubtractsHalfMagnitude ==
    [][(/\ Calls("apply_reinforcement")
        /\ ~call'.success
        /\ edge.pending_reinforcement # None)
        => LET p == edge.pending_reinforcement[1]
               half == IF p < 0 THEN (-p) \div 2 ELSE p \div 2
           IN edge'.strength =
                  IF edge.strength - half < 0 THEN 0 ELSE edge.strength - half]_vars

\* C8 witness: strength 0.5 with 0.2 pending, a failed outcome, strength 0.4
\* and an empty slot.
C8_Witness ==
    /\ call.op = "apply_reinforcement"
    /\ ~call.success
    /\ call.pending = Some(2)
    /\ call.strength = 5
    /\ edge.strength = 4
    /\ edge.pending_reinforcement = None

\* C9: apply_reinforcement leaves the pending slot empty whether success is
\* true or false; only schedule_reinforcement fills the slot; and an
\* apply_reinforcement that finds it empty leaves strength as it is. So each
\* scheduled amount changes strength at most once.
C9_ApplyClearsPending ==
    [][/\ Calls("apply_reinforcement") =>
           /\ edge'.pending_reinforcement = None
           /\ edge.pending_reinforcement = None => edge'.strength = edge.strength
       /\ (/\ edge'.pending_reinforcement # None
           /\ edge'.pending_reinforcement # edge.pending_reinforcement)
              => Calls("schedule_reinforcement")]_vars

\* C9 witness: a failed outcome consumed a negative pending amount.
C9_Witness ==
    /\ call.op = "apply_reinforcement"
    /\ ~call.success
    /\ call.pending = Some(-6)
    /\ edge.pending_reinforcement = None
    /\ edge.strength = call.strength - 3

----------------------------------------------------------------------------
(* Claims about Dialograph, checked under SpecGraph *)

\* The adjacency entry of the edge stored under key k.
Entry(es, k) == <<es[k].source_node_id, es[k].target_node_id, k>>

\* C2: in every reachable state both endpoints of every edge of the edge
\* mapping are keys of the node mapping, the adjacency structure holds
\* exactly one entry <<source, target, edge id>> per edge of the edge
\* mapping, and it holds no node that is absent from the node mapping.
C2_ReferentialIntegrity ==
    /\ \A k \in DOMAIN edges :
           /\ edges[k].source_node_id \in DOMAIN nodes
           /\ edges[k].target_node_id \in DOMAIN nodes
    /\ nx_edges(graph) = {Entry(edges, k) : k \in DOMAIN edges}
    /\ nx_number_of_edges(graph) = Cardinality(DOMAIN edges)
    /\ graph.node \subseteq DOMAIN nodes

\* C2 witness: load replaced a graph by a saved one holding two parallel
\* edges, after a file had been written.
C2_Witness ==
    /\ call.op = "load"
    /\ ~raised
    /\ DOMAIN edges = {"e1", "e2"}
    /\ \A k \in DOMAIN edges : edges[k].source_node_id = "a"
                                /\ edges[k].target_node_id = "b"

\* add_edge's three failure cases, on the state the call starts from.
BadEdge(e) ==
    \/ e.edge_id \in DOMAIN edges
    \/ e.source_node_id \notin DOMAIN nodes
    \/ e.target_node_id \notin DOMAIN nodes

\* C3: add_edge raises when the edge id is already present or the source or
\* the target is not a node, and only then; every add_edge that raises
\* leaves the node mapping, the edge mapping and the adjacency structure
\* as they were.
C3_AddEdgeFailsCleanly ==
    [][call'.op = "add_edge" =>
        /\ raised' <=> BadEdge(call'.edge)
        /\ raised' => (nodes' = nodes /\ edges' = edges /\ graph' = graph)]_vars

\* C3 witness: an edge with a new id and an existing source was refused
\* because its target is not a node.
C3_Witness ==
    /\ call.op = "add_edge"
    /\ raised
    /\ call.edge.edge_id \notin DOMAIN edges
    /\ call.edge.source_node_id \in DOMAIN nodes
    /\ call.edge.target_node_id \notin DOMAIN nodes

\* C4: add_node with an id that is already a key of the node mapping raises
\* and leaves the node stored under that id, the edge mapping and the
\* adjacency structure unchanged; after any add_node every key of the node
\* mapping is the id of the one node stored under it.
C4_AddNodeRejectsDuplicate ==
    [][call'.op = "add_node" =>
        /\ call'.node.node_id \in DOMAIN nodes =>
               /\ raised'
               /\ nodes' = nodes
               /\ edges' = edges
               /\ graph' = graph
        /\ \A k \in DOMAIN nodes' : nodes'[k].node_id = k]_vars

\* C4 witness: a node was refused whose id is taken by a different node.
C4_Witness ==
    /\ call.op = "add_node"
    /\ raised
    /\ call.node.node_id \in DOMAIN nodes
    /\ nodes[call.node.node_id] # call.node

----------------------------------------------------------------------------
(* Claims about persistence, checked under SpecStore *)

\* C14: save writes the graph's nodes and edges with every field, and a
\* load that returns leaves the loading graph with exactly the file's nodes
\* and edges, every field equal (pending_reinforcement, metadata and
\* timestamps included), and with an adjacency structure rebuilt from them:
\* its nodes are the loaded node ids, it has one entry per loaded edge, and
\* nothing the graph held before the load is left.
C14_SaveLoadRoundTrip ==
    /\ call.op = "save" =>
           /\ disk # None
           /\ disk[1].nodes = nodes
           /\ disk[1].edges = edges
    /\ (call.op = "load" /\ ~raised) =>
           /\ nodes = disk[1].nodes
           /\ edges = disk[1].edges
           /\ graph.node = DOMAIN nodes
           /\ nx_edges(graph) = {Entry(edges, k) : k \in DOMAIN edges}
           /\ nx_number_of_edges(graph) = Cardinality(DOMAIN edges)

\* A load into a graph that held an edge and a node the file does not have,
\* of a file whose edge e2 carries a pending amount and metadata.
C14_Witness ==
    /\ call.op = "load"
    /\ ~raised
    /\ "e1" \in call.held.edges
    /\ "e1" \notin DOMAIN edges
    /\ "b" \in call.held.nodes
    /\ "b" \notin DOMAIN nodes
    /\ "e2" \in DOMAIN edges
    /\ edges["e2"].pending_reinforcement = Some(StoredAmount)
    /\ edges["e2"].metadata # EmptyDict
    /\ edges["e2"].emotional_charge # 0

----------------------------------------------------------------------------
(* Claims about the read operations, checked under SpecQuery *)

\* The keys of the edge mapping whose edge runs from src to dst.
FromTo(src, dst) ==
    {k \in DOMAIN edges :
        edges[k].source_node_id = src /\ edges[k].target_node_id = dst}

\* C16: get_edges(src, dst) never fails and returns exactly the edges of the
\* edge mapping that run from src to dst, each once: every parallel edge of
\* the pair, no edge of the opposite direction, and the empty list when
\* there is none or when src or dst is no node.
C16_GetEdgesExactlyThePair ==
    call.op = "get_edges" =>
        /\ ~raised
        /\ Range(ret[1]) = {edges[k] : k \in FromTo(call.src, call.dst)}
        /\ Len(ret[1]) = Cardinality(FromTo(call.src, call.dst))

\* get_edges("a", "b") with two parallel edges a -> b and an edge b -> a.
C16_Witness ==
    /\ call.op = "get_edges"
    /\ call.src = "a"
    /\ call.dst = "b"
    /\ Len(ret[1]) = 2
    /\ FromTo("b", "a") # {}

\* Ascending edge-id order of the model's edge ids.
IdOrder == <<"e1", "e2", "e3">>
IdBefore(x, y) ==
    \E i \in DOMAIN IdOrder, j \in DOMAIN IdOrder :
        i < j /\ IdOrder[i] = x /\ IdOrder[j] = y

\* C12: in the result of retrieve_neighbors, two triples of equal score
\* stand in ascending edge-id order, in whatever order the edges were added.
C12_TiesInEdgeIdOrder ==
    (call.op = "retrieve_neighbors" /\ ~raised) =>
        \A i \in DOMAIN ret[1], j \in DOMAIN ret[1] :
            (i < j /\ ret[1][i][1] = ret[1][j][1]) =>
                IdBefore(ret[1][i][3].edge_id, ret[1][j][3].edge_id)

\* The keys of the edge mapping whose edge leaves src.
From(src) == {k \in DOMAIN edges : edges[k].source_node_id = src}

\* The score the call has to give edge k: confidence x availability of the
\* target node x importance of the edge x context match, the match being 1
\* when no matching function is passed.
ScoreOf(k) ==
    LET at == OrElse(call.at, now)
        n == nodes[edges[k].target_node_id]
    IN retrieval_score(n, Some(at), at) * importance_score(edges[k], Some(at), at)
           * (IF call.fn = None THEN One ELSE call.fn[1][n.node_type])

C15_SnapshotHasOnlyOlder ==
    call.op = "subgraph_at_time" =>
        /\ ~raised
        /\ ret[1].node = {k \in DOMAIN nodes : nodes[k].created_at <= call.t}
        /\ nx_edges(ret[1]) =
               {Entry(edges, k) : k \in {x \in DOMAIN edges : edges[x].created_at <= call.t}}

----------------------------------------------------------------------------
(* Claims about Node, checked under SpecNode *)

\* C17: in every state of a Node, whatever memory_strength it was
\* constructed with and however often it was reinforced, memory_strength is
\* at most 604800 (one week).
C17_MemoryStrengthCapped == node_obj.memory_strength <= Week

\* C18: reinforce(amount) never decreases memory_strength and never
\* decreases confidence, for every amount and every state a constructor
\* call and earlier reinforce calls lead to.
C18_ReinforceNeverDecreases ==
    [][Calls("reinforce") =>
          /\ node_obj'.memory_strength >= node_obj.memory_strength
          /\ node_obj'.confidence >= node_obj.confidence]_vars

\* The time availability works with: its argument, or the clock when the
\* argument is missing.
AskedAt == OrElse(call.at, now)

\* C19: confidence is in [0,1] after construction with any confidence and
\* after any reinforce calls, and availability(now) is in [0,1] for every
\* now, a now earlier than last_accessed included.
C19_ConfidenceAndAvailabilityInRange ==
    /\ 0 <= node_obj.confidence
    /\ node_obj.confidence <= ConfOne
    /\ call.op = "availability" => (0 <= ret[1] /\ ret[1] <= Milli)

\* availability asked for a time before last_accessed, on a node that
\* forgets and whose confidence argument 1.5 was clamped to 1.
C19_Witness ==
    /\ call.op = "availability"
    /\ ~node_obj.persistent
    /\ AskedAt < node_obj.last_accessed
    /\ ret = Some(Milli)
    /\ node_obj.confidence = ConfOne

\* The times at which the model compares availability values.
Instants == {Hour \div 2, Hour, 2 * Hour, 3 * Hour, 5 * Hour}

\* C20: availability(now) is 1 for a persistent node whatever now is; for
\* a node that forgets it is 1 when no time has elapsed since last_accessed,
\* and from last_accessed on it never grows as now grows.
C20_AvailabilityShape ==
    /\ (call.op = "availability" /\ node_obj.persistent) => ret = Some(Milli)
    /\ (call.op = "availability" /\ AskedAt = node_obj.last_accessed) => ret = Some(Milli)
    /\ \A t1 \in Instants, t2 \in Instants :
           (node_obj.last_accessed <= t1 /\ t1 <= t2) =>
               availability(node_obj, Some(t2), now) <= availability(node_obj, Some(t1), now)

\* availability of a persistent node asked two hours after its last access,
\* while the same node with persistent off would have lost availability.
C20_Witness ==
    /\ call.op = "availability"
    /\ node_obj.persistent
    /\ AskedAt = node_obj.last_accessed + 2 * Hour
    /\ ret = Some(Milli)
    /\ availability([node_obj EXCEPT !.persistent = FALSE], call.at, now) < Milli

----------------------------------------------------------------------------
(* Claims about decay, checked under SpecDecay *)

----------------------------------------------------------------------------
(* Claims about the clock and the read operations, checked under SpecRead *)

\* The operations that take a now argument.
TimedReads == {"availability", "recency_factor", "importance_score", "retrieve_neighbors"}

\* C21: what availability, recency_factor, importance_score and
\* retrieve_neighbors return depends only on the now that is passed and on
\* the state of the objects, never on the wall clock: a call repeated with
\* the same explicit now (0 included) on unchanged objects, whatever time
\* passed in between, returns what it returned before.
C21_ExplicitNowIgnoresClock ==
    [][(/\ call.op \in TimedReads
        /\ call' = call
        /\ call.at # None
        /\ nodes' = nodes
        /\ edges' = edges
        /\ graph' = graph) => ret' = ret]_vars

\* The operations C27 calls read operations.
ReadOps ==
    {"retrieve_neighbors", "get_edges", "outgoing_edges", "subgraph_at_time",
     "availability", "retrieval_score", "importance_score"}

\* C27: retrieve_neighbors, get_edges, outgoing_edges, subgraph_at_time,
\* Node.availability, Node.retrieval_score and Edge.importance_score leave
\* every node field, every edge field and the graph's mappings unchanged;
\* the state of a node of the graph changes only through reinforce.
C27_ReadsChangeNothing ==
    [][/\ (call'.op \in ReadOps /\ now' = now) =>
           /\ nodes' = nodes
           /\ edges' = edges
           /\ edge_keys' = edge_keys
           /\ graph' = graph
       /\ \A k \in DOMAIN nodes :
              /\ k \in DOMAIN nodes'
              /\ nodes'[k] # nodes[k] => (Calls("reinforce") /\ call'.id = k)]_vars

\* C27 witness: retrieve_neighbors returned a neighbour two hours into the
\* session, for a reinforced node and an edge that were both last touched
\* earlier.
C27_Witness ==
    /\ call.op = "retrieve_neighbors"
    /\ ret # None
    /\ Len(ret[1]) > 0
    /\ now = 2 * Hour
    /\ "b" \in DOMAIN nodes
    /\ nodes["b"].last_accessed = Hour
    /\ nodes["b"].memory_strength > Hour
    /\ \A k \in DOMAIN edges : edges[k].last_used = Hour

----------------------------------------------------------------------------
(* Claims about emotion, checked under SpecEmotion *)

\* The emotion table of the specification, on the One grid.
TableOf(emotion) ==
    CASE emotion = "happy" -> 3
      [] emotion = "excited" -> 4
      [] emotion = "surprised" -> 1
      [] emotion = "neutral" -> 0
      [] emotion = "anxious" -> -1
      [] emotion = "sad" -> -2
      [] emotion = "angry" -> -4
      [] OTHER -> 0

Clamp(lo, x, hi) == IF x < lo THEN lo ELSE IF x > hi THEN hi ELSE x

\* C22: register_emotion(emotion, intensity) sets emotional_charge to the
\* old charge plus table[emotion] x (intensity clamped into [0,1]), clamped
\* into [-1,1], records the emotion in metadata and refreshes last_used;
\* register_emotion("happy", 1.0) on charge 0 gives 0.3, and an edge of
\* strength 0.7 and charge 0.3 has importance_score 0.742 at zero elapsed
\* time.
C22_RegisterEmotionShiftsCharge ==
    [][/\ Calls("register_emotion") =>
           /\ ~raised'
           /\ edge'.emotional_charge =
                  Clamp(-One, edge.emotional_charge
                                  + (TableOf(call'.emotion) * Clamp(0, call'.intensity, One)) \div One,
                        One)
           /\ edge'.metadata["last_emotion"] = Some(call'.emotion)
           /\ edge'.last_used = now
           /\ (call'.emotion = "happy" /\ call'.intensity = One /\ edge.emotional_charge = 0)
                  => edge'.emotional_charge = 3
       /\ (/\ Calls("importance_score")
           /\ edge.strength = 7
           /\ edge.emotional_charge = 3
           /\ edge.last_used = now) => ret' = Some((742 * One * Milli) \div 1000)]_vars

\* importance_score is read right after register_emotion("happy", 1.0)
\* moved the charge of an edge of strength 0.7 from 0 to 0.3, an hour after
\* the edge was created.
C22_Witness ==
    /\ call.op = "importance_score"
    /\ edge.strength = 7
    /\ edge.emotional_charge = 3
    /\ edge.metadata # EmptyDict
    /\ edge.metadata["last_emotion"] = Some("happy")
    /\ edge.last_used = now
    /\ edge.created_at < now
    /\ ret = Some(7420)

Sign(x) == IF x > 0 THEN 1 ELSE IF x < 0 THEN -1 ELSE 0

\* C23: cool_down(rate) with rate >= 0 sets emotional_charge to 0 when
\* |charge| <= rate and otherwise moves it by exactly rate toward 0; the
\* charge never changes sign and its absolute value never grows.
C23_CoolDownRelaxesTowardZero ==
    [][Calls("cool_down") =>
          /\ ~raised'
          /\ edge'.emotional_charge =
                 IF Abs(edge.emotional_charge) <= call'.rate THEN 0
                 ELSE edge.emotional_charge - Sign(edge.emotional_charge) * call'.rate
          /\ Sign(edge'.emotional_charge) \in {0, Sign(edge.emotional_charge)}
          /\ Abs(edge'.emotional_charge) <= Abs(edge.emotional_charge)]_vars

\* cool_down(0.4) on a charge of exactly -0.4: the boundary case, which the
\* code does not snap but moves by rate, lands on 0.
C23_Witness ==
    /\ call.op = "cool_down"
    /\ call.rate = 4
    /\ call.charge = -4
    /\ edge.emotional_charge = 0

----------------------------------------------------------------------------
(* Further claims about Edge, checked under SpecEdge *)

\* C24: reinforce(amount) never decreases strength and weaken(amount) never
\* increases it, for every amount (a negative amount acts as 0); the result
\* is clamped to [0,1] and last_used is refreshed.
C24_ReinforceUpWeakenDown ==
    [][/\ Calls("reinforce") =>
           /\ ~raised'
           /\ edge'.strength >= edge.strength
           /\ call'.amount < 0 => edge'.strength = edge.strength
           /\ 0 <= edge'.strength /\ edge'.strength <= One
           /\ edge'.last_used = now
       /\ Calls("weaken") =>
           /\ ~raised'
           /\ edge'.strength <= edge.strength
           /\ call'.amount < 0 => edge'.strength = edge.strength
           /\ 0 <= edge'.strength /\ edge'.strength <= One
           /\ edge'.last_used = now]_vars

\* C26: the emotion operations and the strength operations are independent:
\* register_emotion and cool_down never change strength or the pending
\* slot, and reinforce, weaken, schedule_reinforcement and
\* apply_reinforcement never change emotional_charge.
C26_EmotionAndStrengthIndependent ==
    [][/\ (Calls("register_emotion") \/ Calls("cool_down")) =>
           /\ edge'.strength = edge.strength
           /\ edge'.pending_reinforcement = edge.pending_reinforcement
       /\ (\/ Calls("reinforce")
           \/ Calls("weaken")
           \/ Calls("schedule_reinforcement")
           \/ Calls("apply_reinforcement")) =>
           edge'.emotional_charge = edge.emotional_charge]_vars

\* C26 witness: "excited" was registered on an edge of strength 0.5 that has
\* 0.2 pending; the charge is 0.4, strength and the slot are as they were.
C26_Witness ==
    /\ call.op = "register_emotion"
    /\ call.emotion = "excited"
    /\ edge.emotional_charge = 4
    /\ edge.strength = 5
    /\ edge.pending_reinforcement = Some(2)

\* C35: schedule_reinforcement holds a single pending slot: scheduling while
\* an amount is already pending replaces it, so the next apply_reinforcement
\* uses only the most recently scheduled amount; scheduling itself never
\* changes strength or last_used.
C35_SinglePendingSlot ==
    [][/\ Calls("schedule_reinforcement") =>
           /\ edge'.strength = edge.strength
           /\ edge'.last_used = edge.last_used
           /\ ~raised' => edge'.pending_reinforcement = Some(call'.amount)
       /\ (Calls("apply_reinforcement") /\ edge.pending_reinforcement # None) =>
           LET p == edge.pending_reinforcement[1]
               d == IF call'.success THEN p ELSE -HalfAbs(p)
           IN /\ \/ edge'.strength = edge.strength + d
                 \/ edge'.strength = One /\ edge.strength + d >= One
                 \/ edge'.strength = 0 /\ edge.strength + d <= 0
              /\ edge'.pending_reinforcement = None
       /\ edge'.pending_reinforcement # edge.pending_reinforcement =>
           (Calls("schedule_reinforcement") \/ Calls("apply_reinforcement")
            \/ Calls("Edge"))]_vars

\* C35 witness: -0.6 was scheduled while 0.2 was pending, and the slot holds
\* -0.6 alone; strength and last_used are those of an edge built earlier.
C35_Witness ==
    /\ call.op = "schedule_reinforcement"
    /\ call.amount = -6
    /\ call.pending = Some(2)
    /\ ~raised
    /\ edge.pending_reinforcement = Some(-6)
    /\ edge.strength = 5
    /\ edge.last_used < now

----------------------------------------------------------------------------
(* SpecCtor: Edge construction with every kind of argument *)

\* Endpoint ids passed to the constructor; "" is also the value of an
\* endpoint that is not passed at all (the field's default).
CtorSources == {"a", ""}
CtorTargets == {"b", ""}

\* strength arguments: below, at both ends of, inside and above [0,1].
CtorStrengths == {-3, 0, 5, 10, 13}

\* emotional_charge arguments: below, at both ends of, inside and above [-1,1].
CtorCharges == {-14, -10, 0, 10, 12}

\* e = Edge(...): a constructor that raises leaves the caller's edge as it was.
CtorConstruct ==
    \E s \in CtorSources, d \in CtorTargets, st \in CtorStrengths, ch \in CtorCharges :
        EdgeCall([op |-> "Edge", source |-> s, target |-> d, strength |-> st, charge |-> ch],
                 IF EdgeCtorRaises(s, d)
                 THEN Raise(edge)
                 ELSE Done(NewEdge("e1", s, d, st, ch, now)))

CtorInit ==
    /\ now = 0
    /\ edge = NewEdge("e0", "a", "b", 5, 0, 0)
    /\ node_obj = NewNode("n", "problem", ConfOne, 0)
    /\ call = NoCall
    /\ raised = FALSE
    /\ ret = None
    /\ nodes = EmptyDict
    /\ edges = EmptyDict
    /\ edge_keys = <<>>
    /\ graph = EmptyGraph
    /\ disk = None
    /\ server = None
    /\ html_file = None

CtorNext ==
    \/ CtorConstruct
    \/ Tick

SpecCtor == CtorInit /\ [][CtorNext]_vars

----------------------------------------------------------------------------
(* Claims about Edge construction, checked under SpecCtor *)

\* C25: constructing an Edge with an empty or missing source_node_id or
\* target_node_id fails with an error, while out-of-range strength or
\* emotional_charge arguments do not fail and are clamped into [0,1] and
\* [-1,1].
C25_CtorRejectsEmptyIdsAndClamps ==
    [][Calls("Edge") =>
        IF call'.source = "" \/ call'.target = ""
        THEN /\ raised'
             /\ edge' = edge
        ELSE /\ ~raised'
             /\ edge'.source_node_id = call'.source
             /\ edge'.target_node_id = call'.target
             /\ edge'.strength = Clamp(0, call'.strength, One)
             /\ edge'.emotional_charge = Clamp(-One, call'.charge, One)]_vars

\* C25 witness: strength 1.3 and emotional_charge -1.4 were passed, and the
\* edge that was built has strength 1.0 and emotional_charge -1.0.
C25_Witness ==
    /\ call.op = "Edge"
    /\ ~raised
    /\ call.strength = 13
    /\ call.charge = -14
    /\ edge.edge_id = "e1"
    /\ edge.strength = One
    /\ edge.emotional_charge = -One

----------------------------------------------------------------------------
(* draw.py: draw, draw_live and LiveVisualizationServer *)

\* DEFAULT_NODE_COLORS with node_colors.get(node_type, node_colors.get("default", ...)).
NodeColor(node_type) ==
    CASE node_type = "personal_details" -> "#FF6B6B"
      [] node_type = "object" -> "#4ECDC4"
      [] node_type = "person" -> "#45B7D1"
      [] node_type = "subject" -> "#FFA07A"
      [] node_type = "message" -> "#98D8C8"
      [] OTHER -> "#95A5A6"

\* DEFAULT_EDGE_COLORS with edge_colors.get(relation, edge_colors.get("default", ...)).
EdgeColor(relation) ==
    CASE relation = "eats" -> "#E74C3C"
      [] relation = "knows" -> "#3498DB"
      [] relation = "plays" -> "#2ECC71"
      [] relation = "interested" -> "#F39C12"
      [] relation = "famousFor" -> "#9B59B6"
      [] relation = "supports" -> "#1ABC9C"
      [] relation = "contradicts" -> "#E67E22"
      [] relation = "elicits" -> "#16A085"
      [] OTHER -> "#34495E"

\* Ascending string order of the ids the model uses.
KeyOrder == <<"a", "b", "e1", "e2">>

\* sorted(d.items()): the keys of d in ascending order.
SortedKeys(d) == SelectSeq(KeyOrder, LAMBDA k : k \in DOMAIN d)

\* The pyvis Network draw() builds for an empty graph: one placeholder box
\* and no options.
EmptyNet ==
    [nodes |-> <<[id |-> "empty", label |-> "Empty Graph", color |-> "#95A5A6"]>>,
     edges |-> <<>>,
     layout |-> "default"]

\* The pyvis Network draw() builds for a graph with nodes, given the order
\* nks in which the nodes and the order eks in which the edges are added. A
\* node without data is labelled with its id; an edge's id is in its title.
NetIn(self, nks, eks, physics) ==
    [nodes |-> [i \in DOMAIN nks |->
                      [id |-> nks[i],
                       label |-> self.nodes[nks[i]].node_id,
                       color |-> NodeColor(self.nodes[nks[i]].node_type)]],
        edges |-> [i \in DOMAIN eks |->
                      [from |-> self.edges[eks[i]].source_node_id,
                       to |-> self.edges[eks[i]].target_node_id,
                       label |-> self.edges[eks[i]].relation,
                       color |-> EdgeColor(self.edges[eks[i]].relation),
                       title |-> eks[i]]],
        layout |-> IF physics THEN "barnes_hut" ELSE "hierarchical"]

\* draw()'s two loops run over sorted(graph.nodes.items()) and
\* sorted(graph.edges.items()).
NetOf(self, physics) ==
    NetIn(self, SortedKeys(self.nodes), SortedKeys(self.edges), physics)

\* draw that adds the edges in the order of the edge mapping.
draw_in_insertion_order(self, physics) ==
    IF self.nodes = EmptyDict
    THEN Returns(self, Some(EmptyNet))
    ELSE IF \E k \in DOMAIN self.edges :
                \/ self.edges[k].source_node_id \notin DOMAIN self.nodes
                \/ self.edges[k].target_node_id \notin DOMAIN self.nodes
    THEN Fails(self)
    ELSE Returns(self, Some(NetIn(self, SortedKeys(self.nodes), self.edge_keys, physics)))

\* draw that puts the placeholder of an empty graph into the graph itself.
draw_adding_placeholder(self, physics) ==
    IF self.nodes = EmptyDict
    THEN Returns([self EXCEPT
                      !.nodes = DictSet(@, "empty", NewNode("empty", "default", ConfOne, 1)),
                      !.graph = nx_add_node(@, "empty")],
                 Some(EmptyNet))
    ELSE IF \E k \in DOMAIN self.edges :
                \/ self.edges[k].source_node_id \notin DOMAIN self.nodes
                \/ self.edges[k].target_node_id \notin DOMAIN self.nodes
    THEN Fails(self)
    ELSE Returns(self, Some(NetOf(self, physics)))

\* draw(graph, physics=...): the HTML it returns, given by the network it
\* renders. Network.add_edge asserts that both endpoints were added as nodes.
draw(self, physics) ==
    IF self.nodes = EmptyDict
    THEN Returns(self, Some(EmptyNet))
    ELSE IF \E k \in DOMAIN self.edges :
                \/ self.edges[k].source_node_id \notin DOMAIN self.nodes
                \/ self.edges[k].target_node_id \notin DOMAIN self.nodes
    THEN Fails(self)
    ELSE Returns(self, Some(NetOf(self, physics)))

\* LiveVisualizationServer.__init__ after draw_live started the HTTP server:
\*   running   the _running flag
\*   serving   the TCPServer is serving requests
\*   stops     how many times server.shutdown() was called
\*   closes    how many times server.server_close() was called
\*   temp_dir  the temporary directory exists
\*   content   the HTML the handler serves
\*   port      the port of the server's url
\*   browser   a browser window was opened
\*   calls     how many times shutdown() of the wrapper was called
\*   in_with   the caller is inside a `with` block on this server
NewServer(html, port, open_browser) ==
    [running |-> TRUE, serving |-> TRUE, stops |-> 0, closes |-> 0,
     temp_dir |-> TRUE, content |-> html, port |-> port, browser |-> open_browser,
     calls |-> 0, in_with |-> FALSE]

\* draw_live's max_retries.
max_retries == 3

\* The port the host hands out for a bind to port 0 (getsockname()[1]).
AutoPort == 50001

\* draw_live's loop `for attempt in range(max_retries)` from `attempt` on,
\* with the value `port` has at that point; outcomes[i + 1] says whether
\* TCPServer((host, port), ...) succeeds at attempt i.
RECURSIVE create_server(_, _, _)
create_server(port, attempt, outcomes) ==
    IF outcomes[attempt + 1]
    THEN [ok |-> TRUE, port |-> port]
    ELSE IF attempt < max_retries - 1 /\ port # 0
    THEN [ok |-> FALSE, port |-> port]
    ELSE IF attempt < max_retries - 1
    THEN create_server(AutoPort, attempt + 1, outcomes)
    ELSE [ok |-> FALSE, port |-> port]

\* A handler that renders the graph anew for every request.
do_GET_rendering(self, s, path) ==
    IF path \in {"/", "/visualization.html"}
    THEN [status |-> 200, body |-> draw(self, TRUE).ret]
    ELSE [status |-> 404, body |-> None]

\* QuietHandler.do_GET: the response to GET path. The handler class is
\* defined inside draw_live, with the graph (self here) and html_content in
\* scope; it uses html_content, which the server record keeps as content.
do_GET(self, s, path) ==
    IF path \in {"/", "/visualization.html"}
    THEN [status |-> 200, body |-> Some(s.content)]
    ELSE [status |-> 404, body |-> None]

\* shutdown without the check of the _running flag.
shutdown_unguarded(s) ==
    [s EXCEPT !.serving = FALSE, !.stops = @ + 1, !.closes = @ + 1,
              !.running = FALSE, !.temp_dir = FALSE, !.calls = @ + 1]

\* LiveVisualizationServer.shutdown
shutdown(s) ==
    IF s.running
    THEN [s EXCEPT !.serving = FALSE, !.stops = @ + 1, !.closes = @ + 1,
                   !.running = FALSE, !.temp_dir = FALSE, !.calls = @ + 1]
    ELSE [s EXCEPT !.calls = @ + 1]

\* LiveVisualizationServer.is_running
is_running(s) == s.running

----------------------------------------------------------------------------
(* SpecViz: a Dialograph that is built, drawn and served *)

\* add_node arguments <<node_id, node_type>>.
VNodeArgs == {<<"a", "person">>, <<"b", "strategy">>}

\* add_edge arguments <<edge_id, source, target>>.
VEdgeArgs == {<<"e1", "a", "b">>, <<"e2", "b", "a">>}

\* The most shutdown() calls the model makes on one server.
MaxShutdowns == 3

\* A call of draw.py with outcome r: the Edge and the Node under test, the
\* clock and the saved graph are not involved.
VizCall(c, r) ==
    /\ nodes' = r.self.nodes
    /\ edges' = r.self.edges
    /\ edge_keys' = r.self.edge_keys
    /\ graph' = r.self.graph
    /\ raised' = r.raised
    /\ ret' = r.ret
    /\ call' = c
    /\ UNCHANGED <<edge, node_obj, now, disk>>

VAddNode ==
    \E a \in VNodeArgs :
        LET n == NewNode(a[1], a[2], ConfOne, now)
        IN /\ VizCall([op |-> "add_node", id |-> a[1]], add_node(Self, n))
           /\ UNCHANGED <<server, html_file>>

VAddEdge ==
    \E a \in VEdgeArgs :
        LET e == NewEdge(a[1], a[2], a[3], 5, 0, now)
        IN /\ VizCall([op |-> "add_edge", id |-> a[1]], add_edge(Self, e))
           /\ UNCHANGED <<server, html_file>>

\* draw(graph, filename=..., physics=...): with a filename the HTML is
\* written to the file and read back.
Draw ==
    \E to_file \in BOOLEAN, physics \in BOOLEAN :
        LET r == draw(Self, physics)
        IN /\ VizCall([op |-> "draw", to_file |-> to_file, physics |-> physics], r)
           /\ html_file' = IF to_file /\ ~r.raised THEN r.ret ELSE html_file
           /\ UNCHANGED server

\* The port argument of draw_live: 0 (pick a free port) or a given port.
LivePorts == {0, 9876}

\* What the host does during one draw_live call: <<the bind to port 0
\* succeeds, TCPServer(...) succeeds at attempt 0, at attempt 1, at attempt 2>>.
LiveEnvs ==
    {<<TRUE, TRUE, TRUE, TRUE>>, <<FALSE, TRUE, TRUE, TRUE>>,
     <<TRUE, FALSE, TRUE, TRUE>>, <<TRUE, FALSE, FALSE, FALSE>>}

\* server = draw_live(graph, port=..., open_browser=...): the page is drawn,
\* a requested port 0 is replaced by a free port found with a bind, and the
\* server is created; an OSError leaves the caller without a server.
DrawLive ==
    /\ server = None
    /\ \E port \in LivePorts, env \in LiveEnvs, open_browser \in BOOLEAN :
           LET r == draw(Self, TRUE)
               bound == port # 0 \/ env[1]
               made == create_server(IF port = 0 THEN AutoPort ELSE port, 0, Tail(env))
               ok == ~r.raised /\ bound /\ made.ok
           IN /\ VizCall([op |-> "draw_live", port |-> port, env |-> env,
                          open_browser |-> open_browser],
                         IF ok THEN Returns(r.self, None) ELSE Fails(r.self))
              /\ server' = IF ok
                            THEN Some(NewServer(r.ret[1], made.port, open_browser))
                            ELSE None
              /\ UNCHANGED html_file

\* A method call on the server that leaves the graph alone.
ServerCall(c, s, v, exc) ==
    /\ server' = Some(s)
    /\ call' = c
    /\ ret' = v
    /\ raised' = exc
    /\ UNCHANGED <<edge, node_obj, now, nodes, edges, edge_keys, graph, disk, html_file>>

Shutdown ==
    /\ server # None
    /\ server[1].calls < MaxShutdowns
    /\ ServerCall([op |-> "shutdown"], shutdown(server[1]), None, FALSE)

IsRunning ==
    /\ server # None
    /\ ServerCall([op |-> "is_running"], server[1], Some(is_running(server[1])), FALSE)

\* The paths a browser asks for.
RequestPaths == {"/", "/visualization.html", "/favicon.ico"}

\* The server thread answers a request while the server is serving; it runs
\* between any two calls of the caller.
Request ==
    /\ server # None
    /\ server[1].serving
    /\ \E path \in RequestPaths :
           ServerCall([op |-> "GET", path |-> path], server[1],
                      Some(do_GET(Self, server[1], path)), FALSE)

\* with server: ... (__enter__ returns the server itself)
WithEnter ==
    /\ server # None
    /\ ~server[1].in_with
    /\ ServerCall([op |-> "__enter__"], [server[1] EXCEPT !.in_with = TRUE], None, FALSE)

\* The block is left, normally or by an exception of its body; __exit__
\* returns None, so the exception propagates.
WithExit ==
    /\ server # None
    /\ server[1].in_with
    /\ server[1].calls < MaxShutdowns
    /\ \E body_raised \in BOOLEAN :
           ServerCall([op |-> "__exit__", body_raised |-> body_raised],
                      [shutdown(server[1]) EXCEPT !.in_with = FALSE],
                      None, body_raised)

VizInit ==
    /\ now = Hour
    /\ edge = NewEdge("e1", "a", "b", 5, 0, 0)
    /\ node_obj = NewNode("n", "problem", ConfOne, 0)
    /\ call = NoCall
    /\ raised = FALSE
    /\ ret = None
    /\ nodes = NewDialograph.nodes
    /\ edges = NewDialograph.edges
    /\ edge_keys = NewDialograph.edge_keys
    /\ graph = NewDialograph.graph
    /\ disk = None
    /\ server = None
    /\ html_file = None

VizNext ==
    \/ VAddNode
    \/ VAddEdge
    \/ Draw
    \/ DrawLive
    \/ Shutdown
    \/ IsRunning
    \/ Request
    \/ WithEnter
    \/ WithExit

SpecViz == VizInit /\ [][VizNext]_vars

----------------------------------------------------------------------------
(* Claims about visualization, checked under SpecViz *)

\* C28: draw and draw_live do not modify the graph: after either call the
\* node mapping and the edge mapping hold the same keys and the same objects
\* as before, for empty and non-empty graphs.
C28_DrawLeavesGraphAlone ==
    [][(Calls("draw") \/ Calls("draw_live")) =>
           /\ nodes' = nodes
           /\ edges' = edges
           /\ edge_keys' = edge_keys
           /\ graph' = graph]_vars

\* C28 witness: draw_live started a server for a graph of two nodes and two
\* edges after draw had written the empty graph's page to a file.
C28_Witness ==
    /\ call.op = "draw_live"
    /\ ~raised
    /\ server # None
    /\ DOMAIN nodes = {"a", "b"}
    /\ DOMAIN edges = {"e1", "e2"}
    /\ Len(server[1].content.edges) = 2
    /\ html_file = Some(EmptyNet)

\* C29: a LiveVisualizationServer returned by draw_live reports
\* is_running() true until the first shutdown() and false at every later
\* point; shutdown() is idempotent (a second call does not stop or close the
\* server again), and leaving the server's context-manager block always
\* shuts it down, also when the block raises.
C29_ServerLifecycle ==
    [][/\ Calls("draw_live") /\ ~raised' =>
           (server' # None /\ server'[1].running /\ server'[1].calls = 0)
       /\ Calls("is_running") =>
           (ret' = Some(server[1].calls = 0) /\ server' = server)
       /\ Calls("shutdown") =>
           /\ ~raised'
           /\ ~server'[1].running
           /\ ~server'[1].serving
           /\ IF server[1].calls = 0
              THEN server'[1].stops = 1 /\ server'[1].closes = 1
              ELSE /\ server'[1].stops = server[1].stops
                   /\ server'[1].closes = server[1].closes
       /\ Calls("__exit__") =>
           /\ ~server'[1].running
           /\ ~server'[1].serving
           /\ server'[1].stops = 1
           /\ server'[1].closes = 1
       /\ (server # None /\ ~server[1].running) =>
           (server' # None /\ ~server'[1].running)]_vars

\* C29 witness: the body of a `with` block raised on a server that had been
\* shut down inside the block; the server was stopped and closed once.
C29_Witness ==
    /\ call.op = "__exit__"
    /\ call.body_raised
    /\ raised
    /\ server # None
    /\ server[1].calls = 2
    /\ server[1].stops = 1
    /\ server[1].closes = 1
    /\ ~server[1].running
    /\ ~server[1].temp_dir

----------------------------------------------------------------------------
(* traversal/retrieve.py: retrieve_path, with networkx's all_shortest_paths *)

\* G[v]: the neighbours of v, in the order they were first connected.
nx_neighbors(g, v) ==
    LET s == SelectSeq(g.adj, LAMBDA e : e[1] = v)
    IN [i \in DOMAIN s |-> s[i][2]]

\* The body of nx.predecessor's inner loop for the edge v -> w at `level`.
PredVisit(st, v, w, level) ==
    IF w \notin DOMAIN st.seen
    THEN [seen |-> DictSet(st.seen, w, level),
          pred |-> DictSet(st.pred, w, <<v>>),
          nextlevel |-> Append(st.nextlevel, w)]
    ELSE IF st.seen[w] = level
    THEN [st EXCEPT !.pred[w] = Append(@, v)]
    ELSE st

\* for w in G[v]
RECURSIVE PredNeighbors(_, _, _, _)
PredNeighbors(st, v, ws, level) ==
    IF ws = <<>> THEN st
    ELSE PredNeighbors(PredVisit(st, v, Head(ws), level), v, Tail(ws), level)

\* for v in thislevel
RECURSIVE PredLevel(_, _, _, _)
PredLevel(g, st, vs, level) ==
    IF vs = <<>> THEN st
    ELSE PredLevel(g, PredNeighbors(st, Head(vs), nx_neighbors(g, Head(vs)), level),
                   Tail(vs), level)

\* while nextlevel
RECURSIVE PredLoop(_, _, _)
PredLoop(g, st, level) ==
    IF st.nextlevel = <<>> THEN st
    ELSE PredLoop(g, PredLevel(g, [st EXCEPT !.nextlevel = <<>>], st.nextlevel, level + 1),
                  level + 1)

\* nx.predecessor(G, source): for every node reached from source, the list
\* of its predecessors on shortest paths.
nx_predecessor(g, source) ==
    PredLoop(g, [seen |-> DictSet(EmptyDict, source, 0),
                 pred |-> DictSet(EmptyDict, source, <<>>),
                 nextlevel |-> <<source>>], 0).pred

\* networkx's _build_paths_from_predecessors: the paths from source to node
\* through the predecessor lists, depth first in list order. PathsVia
\* collects them for the predecessors of node from position i on.
RECURSIVE PathsFrom(_, _, _)
RECURSIVE PathsVia(_, _, _, _)
PathsFrom(pred, source, node) ==
    IF node = source THEN <<<<source>>>>
    ELSE PathsVia(pred, source, node, 1)

PathsVia(pred, source, node, i) ==
    IF i > Len(pred[node]) THEN <<>>
    ELSE LET ps == PathsFrom(pred, source, pred[node][i])
         IN [j \in DOMAIN ps |-> Append(ps[j], node)]
            \o PathsVia(pred, source, node, i + 1)

\* retrieve_path that returns one shortest path only.
retrieve_path_single(g, start_node, end_node) ==
    IF start_node \notin g.node \/ end_node \notin g.node
    THEN <<>>
    ELSE LET pred == nx_predecessor(g, start_node)
         IN IF end_node \notin DOMAIN pred
            THEN <<>>
            ELSE SubSeq(PathsFrom(pred, start_node, end_node), 1, 1)

\* retrieve_path(graph, start_node, end_node) with weight=None; graph is the
\* MultiDiGraph. all_shortest_paths raises NetworkXNoPath when end_node has
\* no predecessor list, and retrieve_path turns that into [].
retrieve_path(g, start_node, end_node) ==
    IF start_node \notin g.node \/ end_node \notin g.node
    THEN <<>>
    ELSE LET pred == nx_predecessor(g, start_node)
         IN IF end_node \notin DOMAIN pred
            THEN <<>>
            ELSE PathsFrom(pred, start_node, end_node)

----------------------------------------------------------------------------
(* SpecPath: a graph that grows while paths are retrieved from it *)

PathNodes == {"a", "b", "c", "d"}

\* add_edge arguments <<edge_id, source, target>>: two routes from a to d,
\* and an edge back from d to a.
PathEdgeArgs ==
    {<<"e1", "a", "b">>, <<"e2", "b", "d">>, <<"e3", "a", "c">>,
     <<"e4", "c", "d">>, <<"e5", "d", "a">>}

\* start_node and end_node of retrieve_path; "x" is never a node.
PathStarts == {"a", "d", "x"}
PathEnds == {"b", "d", "x"}

PAddNode ==
    \E k \in PathNodes :
        LET n == NewNode(k, "strategy", ConfOne, now)
        IN QueryCall([op |-> "add_node", id |-> k], add_node(Self, n))

PAddEdge ==
    \E a \in PathEdgeArgs :
        LET e == NewEdge(a[1], a[2], a[3], 5, 0, now)
        IN QueryCall([op |-> "add_edge", id |-> a[1]], add_edge(Self, e))

RetrievePath ==
    \E s \in PathStarts, e \in PathEnds :
        QueryCall([op |-> "retrieve_path", start |-> s, end |-> e],
                  Returns(Self, Some(retrieve_path(graph, s, e))))

PathInit ==
    /\ now = Hour
    /\ edge = NewEdge("e1", "a", "b", 5, 0, 0)
    /\ node_obj = NewNode("n", "problem", ConfOne, 0)
    /\ call = NoCall
    /\ raised = FALSE
    /\ ret = None
    /\ nodes = NewDialograph.nodes
    /\ edges = NewDialograph.edges
    /\ edge_keys = NewDialograph.edge_keys
    /\ graph = NewDialograph.graph
    /\ disk = None
    /\ server = None
    /\ html_file = None

PathNext ==
    \/ PAddNode
    \/ PAddEdge
    \/ RetrievePath

SpecPath == PathInit /\ [][PathNext]_vars

----------------------------------------------------------------------------
(* Claims about path retrieval, checked under SpecPath *)

\* The node sequences of k nodes that follow edges of g from s to e.
WalksOfLen(g, s, e, k) ==
    {p \in [1..k -> g.node] :
        /\ p[1] = s
        /\ p[k] = e
        /\ \A i \in 1..(k - 1) : nx_has_edge(g, p[i], p[i + 1])}

\* All shortest paths from s to e in g (a shortest path visits no node
\* twice, so it has at most as many nodes as g).
ShortestPaths(g, s, e) ==
    LET lens == {k \in 1..Cardinality(g.node) : WalksOfLen(g, s, e, k) # {}}
    IN IF lens = {} THEN {}
       ELSE WalksOfLen(g, s, e, CHOOSE k \in lens : \A m \in lens : k <= m)

\* C30: retrieve_path(graph, start, end) returns all shortest paths from
\* start to end, and returns an empty list rather than raising when start
\* is absent, when end is absent, or when no path from start to end exists.
C30_AllShortestPathsOrEmpty ==
    [][Calls("retrieve_path") =>
        LET sp == IF call'.start \in graph.node /\ call'.end \in graph.node
                  THEN ShortestPaths(graph, call'.start, call'.end)
                  ELSE {}
        IN /\ ~raised'
           /\ ret' # None
           /\ Range(ret'[1]) = sp
           /\ Len(ret'[1]) = Cardinality(sp)]_vars

\* C30 witness: both routes a-b-d and a-c-d were returned from a graph that
\* also has an edge back from d to a.
C30_Witness ==
    /\ call.op = "retrieve_path"
    /\ call.start = "a"
    /\ call.end = "d"
    /\ ret # None
    /\ Range(ret[1]) = {<<"a", "b", "d">>, <<"a", "c", "d">>}
    /\ Len(ret[1]) = 2
    /\ DOMAIN edges = {"e1", "e2", "e3", "e4", "e5"}

----------------------------------------------------------------------------
(* traversal/retrieve.py: retrieve_subgraph *)

\* graph.subgraph(ns).copy(): a new graph with the nodes of g that are in ns
\* and the adjacency entries between them.
nx_subgraph_copy(g, ns) ==
    [node |-> g.node \cap ns,
     adj |-> SelectSeq(g.adj, LAMBDA e : e[1] \in ns /\ e[2] \in ns)]

\* retrieve_subgraph(graph, seed_nodes, k). The loop body calls
\* retrieve_neighbors(graph, node, k=k, top_k=None), and the
\* retrieve_neighbors of this file takes (graph, source_node_id, now, top_k,
\* context_match_fn): the call raises TypeError for the first seed. Only an
\* empty seed list gets as far as the return statement.
retrieve_subgraph(self, seed_nodes, k) ==
    IF seed_nodes # <<>>
    THEN Fails(self)
    ELSE Returns(self, Some(nx_subgraph_copy(self.graph, {})))

----------------------------------------------------------------------------
(* SpecSub: a graph that grows while subgraphs are retrieved from it *)

\* seed_nodes lists; "x" is never a node.
SubSeeds == {<<>>, <<"a">>, <<"d", "b">>, <<"a", "x">>}

\* k: the number of hops.
SubHops == {0, 1, 2}

RetrieveSubgraph ==
    \E seeds \in SubSeeds, k \in SubHops :
        QueryCall([op |-> "retrieve_subgraph", seed_nodes |-> seeds, k |-> k],
                  retrieve_subgraph(Self, seeds, k))

SubNext ==
    \/ PAddNode
    \/ PAddEdge
    \/ RetrieveSubgraph

SpecSub == PathInit /\ [][SubNext]_vars

----------------------------------------------------------------------------
(* Claims about subgraph retrieval, checked under SpecSub *)

\* The nodes within k hops of a node of ns, along the edges of g.
RECURSIVE WithinHops(_, _, _)
WithinHops(g, ns, k) ==
    IF k = 0 THEN ns
    ELSE WithinHops(g, ns \cup {g.adj[i][2] : i \in {j \in DOMAIN g.adj : g.adj[j][1] \in ns}},
                    k - 1)

\* C31: retrieve_subgraph(graph, seed_nodes, k) returns a copy of the
\* subgraph induced by the union, over the seeds, of every node within k
\* hops of the seed (the seed included); later changes to the returned
\* subgraph do not change the source graph.
C31_SubgraphWithinHops ==
    [][Calls("retrieve_subgraph") =>
        LET within == WithinHops(graph, Range(call'.seed_nodes), call'.k)
        IN /\ ~raised'
           /\ ret' # None
           /\ ret'[1].node = graph.node \cap within
           /\ nx_edges(ret'[1]) =
                  {e \in nx_edges(graph) : e[1] \in within /\ e[2] \in within}
           /\ graph' = graph]_vars

\* x stands before y in ascending id order.
KeyBefore(x, y) ==
    \E i \in DOMAIN KeyOrder, j \in DOMAIN KeyOrder :
        i < j /\ KeyOrder[i] = x /\ KeyOrder[j] = y

\* Every order in which the elements of the sequence s can stand.
Orders(s) == {p \in [DOMAIN s -> Range(s)] : Range(p) = Range(s)}

\* C32: draw with physics disabled is deterministic: two calls on the same
\* unmodified graph produce identical output, and nodes and edges are
\* emitted in ascending id order, so two graphs with the same nodes and
\* edges inserted in different orders produce the same output.
C32_DrawDeterministic ==
    [][(Calls("draw") /\ ~call'.physics /\ ~raised') =>
        LET net == ret'[1]
        IN /\ \A i \in DOMAIN net.nodes, j \in DOMAIN net.nodes :
                  i < j => KeyBefore(net.nodes[i].id, net.nodes[j].id)
           /\ \A i \in DOMAIN net.edges, j \in DOMAIN net.edges :
                  i < j => KeyBefore(net.edges[i].title, net.edges[j].title)
           /\ \A p \in Orders(edge_keys) :
                  draw([Self EXCEPT !.edge_keys = p], FALSE).ret = ret'
           /\ (call.op = "draw" /\ ~call.physics /\ ~raised) => ret' = ret]_vars

\* C32 witness: e2 was added before e1, the page was drawn twice (once to a
\* file), and the page lists e1 before e2.
C32_Witness ==
    /\ call.op = "draw"
    /\ ~call.physics
    /\ ~call.to_file
    /\ ~raised
    /\ edge_keys = <<"e2", "e1">>
    /\ html_file = ret
    /\ ret[1].edges[1].title = "e1"
    /\ ret[1].edges[2].title = "e2"

\* C33: in draw_live, when the port was auto-assigned (port 0 requested) and
\* creating the server fails with an OS error, a new free port is picked and
\* creation is retried, up to 3 attempts in total before the error is
\* raised; when a specific port was requested, the first failure is raised
\* without retry.
C33_RetryOnlyForAutoPort ==
    [][Calls("draw_live") =>
        LET env == call'.env
        IN IF call'.port = 0
           THEN env[1] => (~raised' <=> (env[2] \/ env[3] \/ env[4]))
           ELSE ~raised' <=> env[2]]_vars

----------------------------------------------------------------------------
(* SpecCool: one Edge whose caller keeps calling cool_down at one rate *)

\* Constructor arguments <<strength, emotional_charge>>: every charge of the
\* grid in [-1,1].
CoolCtorArgs == {<<s, c>> : s \in {5, 10}, c \in -One..One}

\* cool_down rates above 0: from one grid step to more than any charge.
CoolFixedRates == {1, 2, 3, 5, 7, 25}

\* cool_down(rate): the first call chooses the rate, every later call uses
\* the same one. The call record keeps the charge the call found.
KeepCooling ==
    \E r \in CoolFixedRates :
        /\ call.op = "cool_down" => r = call.rate
        /\ EdgeCall([op |-> "cool_down", rate |-> r, charge |-> edge.emotional_charge],
                    cool_down(edge, r))

CoolInit ==
    /\ now = Hour
    /\ edge \in {EdgeAt("e1", "a", "b", a[1], a[2], Hour, Hour) : a \in CoolCtorArgs}
    /\ node_obj = NewNode("n", "problem", ConfOne, 0)
    /\ call = NoCall
    /\ raised = FALSE
    /\ ret = None
    /\ nodes = EmptyDict
    /\ edges = EmptyDict
    /\ edge_keys = <<>>
    /\ graph = EmptyGraph
    /\ disk = None
    /\ server = None
    /\ html_file = None

CoolNext == KeepCooling

\* The caller never stops calling cool_down.
SpecCool == CoolInit /\ [][CoolNext]_vars /\ WF_vars(CoolNext)

----------------------------------------------------------------------------
(* Claims about repeated cool_down, checked under SpecCool *)

\* C34: starting from any emotional_charge in [-1,1], repeated cool_down
\* calls with a fixed rate > 0 reach emotional_charge exactly 0 after
\* finitely many calls, and every later cool_down leaves it at 0 (no
\* oscillation around 0).
C34_CoolDownSettlesAtZero ==
    /\ <>[](edge.emotional_charge = 0)
    /\ [][edge.emotional_charge = 0 => edge'.emotional_charge = 0]_vars

\* C34 witness: cool_down(0.3) found the charge at -0.2, which is where two
\* calls take a charge of -0.8, and set it to 0.
C34_Witness ==
    /\ call.op = "cool_down"
    /\ call.rate = 3
    /\ call.charge = -2
    /\ edge.emotional_charge = 0

----------------------------------------------------------------------------
(* Further claims about emotion, checked under SpecEmotion *)

\* The names of the emotion table.
TableNames == {"happy", "excited", "surprised", "neutral", "anxious", "sad", "angry"}

\* C36: register_emotion with an emotion name outside the fixed emotion
\* table is not rejected: emotional_charge stays unchanged, yet the unknown
\* name is recorded as metadata last_emotion and last_used is refreshed.
C36_UnknownEmotionAccepted ==
    [][(Calls("register_emotion") /\ call'.emotion \notin TableNames) =>
           /\ ~raised'
           /\ edge'.emotional_charge = edge.emotional_charge
           /\ "last_emotion" \in DOMAIN edge'.metadata
           /\ edge'.metadata["last_emotion"] = Some(call'.emotion)
           /\ edge'.last_used = now]_vars

\* C36 witness: "curious" was registered two hours into the session on an
\* edge built with charge 0.8 and used an hour earlier; the charge is still
\* 0.8, the name is in the metadata and last_used is the current time.
C36_Witness ==
    /\ call.op = "register_emotion"
    /\ call.emotion = "curious"
    /\ ~raised
    /\ now = 2 * Hour
    /\ edge.emotional_charge = 8
    /\ edge.metadata # EmptyDict
    /\ edge.metadata["last_emotion"] = Some("curious")
    /\ edge.metadata["last_emotion_time"] = Some(now)
    /\ edge.last_used = now

\* C37: the server thread started by draw_live never reads the graph: every
\* request is answered from the HTML rendered once inside the draw_live
\* call, so node or edge changes made while the server runs cannot race with
\* request handling and never change the served page.
C37_ServedPageIsFixed ==
    [][/\ (Calls("draw_live") /\ ~raised') =>
           server'[1].content = draw(Self, TRUE).ret[1]
       /\ (server # None /\ server' # None) =>
           server'[1].content = server[1].content
       /\ Calls("GET") =>
           /\ ret'[1] = IF call'.path \in {"/", "/visualization.html"}
                        THEN [status |-> 200, body |-> Some(server[1].content)]
                        ELSE [status |-> 404, body |-> None]
           /\ nodes' = nodes
           /\ edges' = edges
           /\ edge_keys' = edge_keys
           /\ graph' = graph]_vars

\* C37 witness: the server was started on the empty graph; two nodes and two
\* edges later a request for "/" is still answered with the page of the
\* empty graph.
C37_Witness ==
    /\ call.op = "GET"
    /\ call.path = "/"
    /\ ret = Some([status |-> 200, body |-> Some(EmptyNet)])
    /\ DOMAIN nodes = {"a", "b"}
    /\ DOMAIN edges = {"e1", "e2"}

====
